---- MODULE Spec2Model ----
(***************************************************************************)
(* A model of the chess package: the Board value type, MakeMove, the       *)
(* pseudo-legal / legal move generator, FEN reading and writing and the    *)
(* SAN / UCI move notation.  Strings are sequences of one-character        *)
(* strings; squares are 0..63 (rank*8 + file) and pieces are the integers  *)
(* of board.go (colour in the low bit, type in the remaining bits).        *)
(***************************************************************************)
EXTENDS Integers, Sequences, FiniteSets, TLC

VARIABLES
    b,      \* the Board the driver currently holds
    plies,  \* number of moves made with MakeMove since ParseFen
    out,    \* the result of the last operation called on b
    parser, \* pgn: the parser of the running DB.Parse call
    errs,   \* pgn: the errors DB.Parse has collected
    Games,  \* pgn: DB.Games
    ret,    \* pgn: the last call made on the database and what it returned
    comm,   \* uci: the communicator goroutine, its fields and where it stands in run
    caller, \* uci: the goroutine that calls the methods of the Engine
    engine, \* uci: the engine process and the lines read from its output
    infocs  \* uci: the Info channels made by Engine.search

chessVars == <<b, plies, out>>
pgnVars == <<parser, errs, Games, ret>>
uciVars == <<comm, caller, engine, infocs>>
vars == <<chessVars, pgnVars, uciVars>>

----------------------------------------------------------------------------
(* board.go: colours, piece types, squares, files, ranks, wings *)

White == 0
Black == 1

NoPiece == 0
Pawn == 2
Knight == 4
Bishop == 6
Rook == 8
Queen == 10
King == 12

A1 == 0
C1 == 2
D1 == 3
F1 == 5
G1 == 6
H1 == 7
A8 == 56
C8 == 58
D8 == 59
F8 == 61
G8 == 62
H8 == 63
NoSquare == -1

FileA == 0
FileB == 1
FileH == 7
Rank1 == 0
Rank2 == 1
Rank8 == 7

queenSide == 0
kingSide == 2
WhiteOO == 2
BlackOO == 3
WhiteOOO == 0
BlackOOO == 1

Color(p) == p % 2
Type(p) == p - (p % 2)

Square(file, rank) == rank * 8 + file
File(sq) == sq % 8
Rank(sq) == sq \div 8
RelativeRank(sq, color) == IF color = White THEN Rank(sq) ELSE 7 - Rank(sq)

\* PieceLetters[i] is PieceLetters(i): index 0 and 1 are '.' and ','
PieceLetters(i) ==
    <<".", ",", "P", "p", "N", "n", "B", "b", "R", "r", "Q", "q", "K", "k">>[i + 1]

\* pieceFromChar scans PieceLetters from index WP on
pieceFromChar(c) ==
    LET hits == {i \in 2..13 : PieceLetters(i) = c}
    IN IF hits = {} THEN NoPiece ELSE CHOOSE i \in hits : \A j \in hits : i <= j

my(bd, piece) == bd.SideToMove + piece
opp(bd, piece) == (1 - bd.SideToMove) + piece

Move(from, to, promotion) == [From |-> from, To |-> to, Promotion |-> promotion]
NullMove == Move(0, 0, NoPiece)

\* find: the first square holding piece, walking from sq0 towards sq1
find(bd, piece, sq0, sq1) ==
    LET first(hits) ==
            IF hits = {} THEN NoSquare
            ELSE IF sq0 > sq1 THEN CHOOSE s \in hits : \A t \in hits : t <= s
            ELSE CHOOSE s \in hits : \A t \in hits : s <= t
    IN IF sq0 > sq1 THEN first({sq \in sq1..sq0 : bd.Piece[sq] = piece})
       ELSE first({sq \in sq0..sq1 : bd.Piece[sq] = piece})

----------------------------------------------------------------------------
(* movegen.go: castleSquares, canCastle *)

MinOf(S) == CHOOSE s \in S : \A t \in S : s <= t
MaxOf(S) == CHOOSE s \in S : \A t \in S : t <= s

\* the named results keep their zero value when rf is NoSquare
castleSquares(bd, wing) ==
    LET squares(rf, kf, rt, kt) ==
            IF rf = NoSquare
            THEN [rf |-> NoSquare, kf |-> 0, rt |-> 0, kt |-> 0, min |-> 0, max |-> 0]
            ELSE [rf |-> rf, kf |-> kf, rt |-> rt, kt |-> kt,
                  min |-> MinOf({H8, kf, rf, kt, rt}),
                  max |-> MaxOf({A1, kf, rf, kt, rt})]
    IN squares(bd.CastleSq[bd.SideToMove + wing],
               find(bd, my(bd, King), A1, H8),
               <<D1, D8, F1, F8>>[bd.SideToMove + wing + 1],
               <<C1, C8, G1, G8>>[bd.SideToMove + wing + 1])

canCastle(bd, wing) ==
    LET free(cs) ==
            /\ cs.rf # NoSquare
            /\ \A sq \in cs.min..cs.max :
                 bd.Piece[sq] = NoPiece \/ sq = cs.kf \/ sq = cs.rf
    IN free(castleSquares(bd, wing))

----------------------------------------------------------------------------
(* board.go: MakeMove *)

\* the value standing for a run-time failure (index out of range)
Panic == [panic |-> TRUE]

isCastling(bd, m) ==
    /\ m # NullMove
    /\ bd.Piece[m.From] = my(bd, King)
    /\ bd.Piece[m.To] = my(bd, Rook)

castleWing(m) == IF m.To < m.From THEN queenSide ELSE kingSide

\* switch side to move; the fullmove counter advances when White is to move again
switchSide(bd) ==
    [bd EXCEPT !.SideToMove = 1 - bd.SideToMove,
               !.MoveNr = IF bd.SideToMove = Black THEN bd.MoveNr + 1 ELSE bd.MoveNr]

makeCastle(bd, m) ==
    LET castled(cs) ==
            [bd EXCEPT !.Piece = [sq \in 0..63 |->
                                    IF sq = cs.kt THEN my(bd, King)
                                    ELSE IF sq = cs.rt THEN my(bd, Rook)
                                    ELSE IF sq = cs.kf \/ sq = cs.rf THEN NoPiece
                                    ELSE bd.Piece[sq]],
                       !.checkFrom = IF cs.kf < cs.kt THEN cs.kf ELSE cs.kt,
                       !.checkTo = IF cs.kf < cs.kt THEN cs.kt ELSE cs.kf,
                       !.CastleSq = [i \in 0..3 |->
                           IF i = bd.SideToMove + kingSide \/ i = bd.SideToMove + queenSide
                           THEN NoSquare ELSE bd.CastleSq[i]],
                       !.Rule50 = bd.Rule50 + 1]
    IN castled(castleSquares(bd, castleWing(m)))

\* makeOrdinary that never drops a castling right
makeOrdinary_KeepsRights(bd, m, epSquare) ==
    LET piece == bd.Piece[m.From]
        dy == Rank(m.To) - Rank(m.From)
        isPawn == Type(piece) = Pawn
        \* the pawn cases: a double step, else en passant, else promotion
        pawnCase == IF ~isPawn THEN "none"
                    ELSE IF dy = 2 \/ dy = -2 THEN "double"
                    ELSE IF m.To = epSquare THEN "enpassant"
                    ELSE IF RelativeRank(m.To, bd.SideToMove) = Rank8 THEN "promote"
                    ELSE "none"
        \* the castling rights after the move
        rights(king) == bd.CastleSq
        \* the counter update and the move of the piece, on the pieces p1
        moved(p1, kind) ==
            [bd EXCEPT !.Piece = [[p1 EXCEPT ![m.To] = p1[m.From]] EXCEPT ![m.From] = NoPiece],
                       !.EpSquare = IF kind = "double"
                                    THEN Square(File(m.From),
                                                Rank(m.From) + (IF dy = 2 THEN 1 ELSE -1))
                                    ELSE bd.EpSquare,
                       !.CastleSq = rights(Type(piece) = King),
                       !.Rule50 = IF isPawn \/ p1[m.To] # NoPiece THEN 0 ELSE bd.Rule50 + 1]
        pieces(kind) ==
            IF kind = "enpassant"
            THEN [bd.Piece EXCEPT ![Square(File(m.To), Rank(m.From))] = NoPiece,
                                  ![epSquare] = opp(bd, Pawn)]
            ELSE IF kind = "promote" THEN [bd.Piece EXCEPT ![m.From] = m.Promotion]
            ELSE bd.Piece
        result(kind) == moved(pieces(kind), kind)
    IN result(pawnCase)

\* bd has EpSquare and the check range already reset; epSquare is the old one
makeOrdinary(bd, m, epSquare) ==
    LET piece == bd.Piece[m.From]
        dy == Rank(m.To) - Rank(m.From)
        isPawn == Type(piece) = Pawn
        \* the pawn cases: a double step, else en passant, else promotion
        pawnCase == IF ~isPawn THEN "none"
                    ELSE IF dy = 2 \/ dy = -2 THEN "double"
                    ELSE IF m.To = epSquare THEN "enpassant"
                    ELSE IF RelativeRank(m.To, bd.SideToMove) = Rank8 THEN "promote"
                    ELSE "none"
        \* the castling rights after the move
        rights(king) ==
            [i \in 0..3 |->
               IF bd.CastleSq[i] = m.From \/ bd.CastleSq[i] = m.To THEN NoSquare
               ELSE IF king /\ (i = bd.SideToMove + kingSide \/ i = bd.SideToMove + queenSide)
               THEN NoSquare
               ELSE bd.CastleSq[i]]
        \* the counter update and the move of the piece, on the pieces p1
        moved(p1, kind) ==
            [bd EXCEPT !.Piece = [[p1 EXCEPT ![m.To] = p1[m.From]] EXCEPT ![m.From] = NoPiece],
                       !.EpSquare = IF kind = "double"
                                    THEN Square(File(m.From),
                                                Rank(m.From) + (IF dy = 2 THEN 1 ELSE -1))
                                    ELSE bd.EpSquare,
                       !.CastleSq = rights(Type(piece) = King),
                       !.Rule50 = IF isPawn \/ p1[m.To] # NoPiece THEN 0 ELSE bd.Rule50 + 1]
        pieces(kind) ==
            IF kind = "enpassant"
            THEN [bd.Piece EXCEPT ![Square(File(m.To), Rank(m.From))] = NoPiece,
                                  ![epSquare] = opp(bd, Pawn)]
            ELSE IF kind = "promote" THEN [bd.Piece EXCEPT ![m.From] = m.Promotion]
            ELSE bd.Piece
        result(kind) == moved(pieces(kind), kind)
    IN result(pawnCase)

MakeMovePanics(bd, m) ==
    isCastling(bd, m) /\ castleSquares(bd, castleWing(m)).rf = NoSquare

\* MakeMove that leaves the en-passant square and the castle range of the board
\* in place on a null move
MakeMove_NullKeepsRange(bd, m) ==
    LET reset == [bd EXCEPT !.EpSquare = NoSquare, !.checkFrom = A1, !.checkTo = A1]
    IN IF m = NullMove THEN switchSide(bd)
       ELSE IF isCastling(bd, m)
       THEN IF MakeMovePanics(bd, m) THEN Panic ELSE switchSide(makeCastle(reset, m))
       ELSE switchSide(makeOrdinary(reset, m, bd.EpSquare))

\* MakeMove that leaves the en-passant square of the board in place
MakeMove_KeepsEpSquare(bd, m) ==
    LET reset == [bd EXCEPT !.checkFrom = A1, !.checkTo = A1]
    IN IF m = NullMove THEN switchSide(reset)
       ELSE IF isCastling(bd, m)
       THEN IF MakeMovePanics(bd, m) THEN Panic ELSE switchSide(makeCastle(reset, m))
       ELSE switchSide(makeOrdinary(reset, m, bd.EpSquare))

\* MakeMove that does not remember the en-passant square of the board
MakeMove_ForgetsEpSquare(bd, m) ==
    LET reset == [bd EXCEPT !.EpSquare = NoSquare, !.checkFrom = A1, !.checkTo = A1]
    IN IF m = NullMove THEN switchSide(reset)
       ELSE IF isCastling(bd, m)
       THEN IF MakeMovePanics(bd, m) THEN Panic ELSE switchSide(makeCastle(reset, m))
       ELSE switchSide(makeOrdinary(reset, m, NoSquare))

\* MakeMove that counts a null move as a halfmove of the 50-move rule
MakeMove_NullCountsRule50(bd, m) ==
    LET reset == [bd EXCEPT !.EpSquare = NoSquare, !.checkFrom = A1, !.checkTo = A1]
    IN IF m = NullMove THEN switchSide([reset EXCEPT !.Rule50 = bd.Rule50 + 1])
       ELSE IF isCastling(bd, m)
       THEN IF MakeMovePanics(bd, m) THEN Panic ELSE switchSide(makeCastle(reset, m))
       ELSE switchSide(makeOrdinary(reset, m, bd.EpSquare))

MakeMove(bd, m) ==
    LET reset == [bd EXCEPT !.EpSquare = NoSquare, !.checkFrom = A1, !.checkTo = A1]
    IN IF m = NullMove THEN switchSide(reset)
       ELSE IF isCastling(bd, m)
       THEN IF MakeMovePanics(bd, m) THEN Panic ELSE switchSide(makeCastle(reset, m))
       ELSE switchSide(makeOrdinary(reset, m, bd.EpSquare))

----------------------------------------------------------------------------
(* movegen.go: the generator *)

\* step that only tests whether the target is a square of the board
step_OnBoardOnly(from, offset) ==
    LET to == from + offset
    IN IF to < A1 \/ to > H8 THEN NoSquare ELSE to

step(from, offset) ==
    LET to == from + offset
    IN IF to < A1 \/ to > H8 THEN NoSquare
       ELSE IF File(to) - File(from) < -2 \/ File(to) - File(from) > 2 THEN NoSquare
       ELSE to

\* the moves addMove appends (none or one)
addMove(bd, from, to, promotion) ==
    IF to = NoSquare THEN << >>
    ELSE IF bd.Piece[to] = NoPiece \/ Color(bd.Piece[to]) # bd.SideToMove
    THEN << Move(from, to, promotion) >>
    ELSE << >>

\* addMove's return value: whether the piece can move on
addMoveOn(bd, to) == to # NoSquare /\ bd.Piece[to] = NoPiece

addPawnMove(bd, from, to) ==
    IF RelativeRank(to, bd.SideToMove) = Rank8
    THEN addMove(bd, from, to, my(bd, Knight)) \o addMove(bd, from, to, my(bd, Bishop))
         \o addMove(bd, from, to, my(bd, Rook)) \o addMove(bd, from, to, my(bd, Queen))
    ELSE addMove(bd, from, to, NoPiece)

addPawnMoveOn(bd, to) ==
    RelativeRank(to, bd.SideToMove) # Rank8 /\ addMoveOn(bd, to)

pawnPush(bd, from, to) ==
    IF to # NoSquare /\ bd.Piece[to] = NoPiece THEN addPawnMove(bd, from, to) ELSE << >>

pawnPushOn(bd, to) ==
    to # NoSquare /\ bd.Piece[to] = NoPiece /\ addPawnMoveOn(bd, to)

pawnCapture(bd, from, to) ==
    IF to # NoSquare /\ (bd.Piece[to] # NoPiece \/ to = bd.EpSquare)
    THEN addPawnMove(bd, from, to) ELSE << >>

pawn(bd, sq) ==
    LET offset == IF bd.SideToMove = White THEN 8 ELSE -8
        ok == pawnPushOn(bd, step(sq, offset))
    IN pawnPush(bd, sq, step(sq, offset))
       \o (IF ok /\ RelativeRank(sq, bd.SideToMove) = Rank2
           THEN pawnPush(bd, sq, step(sq, 2 * offset)) ELSE << >>)
       \o pawnCapture(bd, sq, step(sq, offset + 1))
       \o pawnCapture(bd, sq, step(sq, offset - 1))

RECURSIVE stepsOver(_, _, _, _)
\* addMove(sq, sq.step(offset)) for each offset of the list, in order
stepsOver(bd, sq, offsets, i) ==
    IF i > Len(offsets) THEN << >>
    ELSE addMove(bd, sq, step(sq, offsets[i]), NoPiece) \o stepsOver(bd, sq, offsets, i + 1)

knight(bd, sq) == stepsOver(bd, sq, <<-17, -15, -10, -6, 6, 10, 15, 17>>, 1)

RECURSIVE slide(_, _, _, _)
slide(bd, from, to, offset) ==
    addMove(bd, from, to, NoPiece)
    \o (IF addMoveOn(bd, to) THEN slide(bd, from, step(to, offset), offset) ELSE << >>)

slider(bd, from, offset) == slide(bd, from, step(from, offset), offset)

bishop(bd, from) ==
    slider(bd, from, -9) \o slider(bd, from, -7) \o slider(bd, from, 7) \o slider(bd, from, 9)

rook(bd, from) ==
    slider(bd, from, -8) \o slider(bd, from, -1) \o slider(bd, from, 1) \o slider(bd, from, 8)

king(bd, from) ==
    stepsOver(bd, from, <<-9, -8, -7, -1, 1, 7, 8, 9>>, 1)
    \o (IF canCastle(bd, kingSide)
        THEN << Move(from, bd.CastleSq[bd.SideToMove + kingSide], NoPiece) >> ELSE << >>)
    \o (IF canCastle(bd, queenSide)
        THEN << Move(from, bd.CastleSq[bd.SideToMove + queenSide], NoPiece) >> ELSE << >>)

\* the moves the generator appends for the piece on square sq
genPiece(bd, sq) ==
    LET piece == bd.Piece[sq]
        t == Type(piece)
    IN IF piece = NoPiece \/ Color(piece) # bd.SideToMove THEN << >>
       ELSE IF t = Pawn THEN pawn(bd, sq)
       ELSE IF t = Knight THEN knight(bd, sq)
       ELSE IF t = Bishop THEN bishop(bd, sq)
       ELSE IF t = Rook THEN rook(bd, sq)
       ELSE IF t = Queen THEN bishop(bd, sq) \o rook(bd, sq)
       ELSE IF t = King THEN king(bd, sq)
       ELSE << >>

RECURSIVE genAll(_, _, _)
\* the loop over the squares lo..hi in order, the range split in halves
genAll(bd, lo, hi) ==
    IF lo = hi THEN genPiece(bd, lo)
    ELSE genAll(bd, lo, (lo + hi) \div 2) \o genAll(bd, (lo + hi) \div 2 + 1, hi)

pseudoLegalMoves(bd) ==
    LET \* the position is illegal if a move lands in the range checkFrom..checkTo
        result(moves, checkFrom, checkTo) ==
            IF \E i \in 1..Len(moves) : moves[i].To >= checkFrom /\ moves[i].To <= checkTo
            THEN [moves |-> << >>, check |-> TRUE]
            ELSE [moves |-> moves, check |-> FALSE]
        onKing(moves, kingSq) == result(moves, kingSq, kingSq)
    IN IF bd.checkFrom = A1 /\ bd.checkTo = A1
       THEN onKing(genAll(bd, A1, H8), find(bd, opp(bd, King), A1, H8))
       ELSE result(genAll(bd, A1, H8), bd.checkFrom, bd.checkTo)

\* move.go: isLegal
isLegal(m, bd) == ~pseudoLegalMoves(MakeMove(bd, m)).check

----------------------------------------------------------------------------
(* movegen.go: LegalMoves, IsCheckOrMate *)

\* one turn of the in-place filter loop: i is the index read (from 1), st.j the
\* count kept so far; a legal moves[i] is overwritten with moves[j]
legalStep(bd, st, i) ==
    IF isLegal(st.moves[i], bd)
    THEN [moves |-> [st.moves EXCEPT ![i] = st.moves[st.j + 1]], j |-> st.j + 1]
    ELSE st

RECURSIVE legalLoop(_, _, _, _)
\* the turns lo..hi of the loop in order, the range split in halves; the count
\* kept never exceeds the turns taken, and reading it settles the first half
\* before the second half starts
legalLoop(bd, st, lo, hi) ==
    IF lo > hi THEN st
    ELSE IF lo = hi THEN legalStep(bd, st, lo)
    ELSE LET first == legalLoop(bd, st, lo, (lo + hi) \div 2)
         IN IF first.j <= hi THEN legalLoop(bd, first, (lo + hi) \div 2 + 1, hi) ELSE first

LegalMoves(bd) ==
    LET kept(end) == SubSeq(end.moves, 1, end.j)
        filter(moves) == kept(legalLoop(bd, [moves |-> moves, j |-> 0], 1, Len(moves)))
    IN filter(pseudoLegalMoves(bd).moves)

\* IsCheckOrMate with the mate flag taken from the pseudo-legal moves alone
IsCheckOrMate_AnyPseudoLegal(bd) ==
    [check |-> pseudoLegalMoves(MakeMove(bd, NullMove)).check,
     mate |-> pseudoLegalMoves(bd).moves = << >>]

IsCheckOrMate(bd) ==
    LET noneLegal(moves) == ~(\E i \in 1..Len(moves) : isLegal(moves[i], bd))
    IN [check |-> pseudoLegalMoves(MakeMove(bd, NullMove)).check,
        mate |-> noneLegal(pseudoLegalMoves(bd).moves)]

----------------------------------------------------------------------------
(* characters and numbers in strings *)

FileChars == <<"a", "b", "c", "d", "e", "f", "g", "h">>
UpperFileChars == <<"A", "B", "C", "D", "E", "F", "G", "H">>
RankChars == <<"1", "2", "3", "4", "5", "6", "7", "8">>
DigitChars == <<"0", "1", "2", "3", "4", "5", "6", "7", "8", "9">>

\* position of c in the sequence, 0 when absent
IndexOf(seq, c) ==
    IF \E i \in 1..Len(seq) : seq[i] = c THEN CHOOSE i \in 1..Len(seq) : seq[i] = c ELSE 0

isFileChar(c) == IndexOf(FileChars, c) # 0
isRankChar(c) == IndexOf(RankChars, c) # 0

RECURSIVE itoa(_)
\* fmt %d of a number >= 0
itoa(n) == IF n < 10 THEN << DigitChars[n + 1] >> ELSE itoa(n \div 10) \o << DigitChars[(n % 10) + 1] >>

RECURSIVE atoiFrom(_, _, _)
atoiFrom(s, i, acc) ==
    IF i > Len(s) THEN acc ELSE atoiFrom(s, i + 1, acc * 10 + (IndexOf(DigitChars, s[i]) - 1))

\* strconv.Atoi on an unsigned decimal; err for anything else
Atoi(s) ==
    IF s = << >> \/ \E i \in 1..Len(s) : IndexOf(DigitChars, s[i]) = 0
    THEN [err |-> TRUE, n |-> 0]
    ELSE [err |-> FALSE, n |-> atoiFrom(s, 1, 0)]

\* Sq.String
SqString(sq) ==
    IF sq = NoSquare THEN << "-" >> ELSE << FileChars[File(sq) + 1], RankChars[Rank(sq) + 1] >>

squareFromString(s) ==
    IF Len(s) # 2 \/ ~isFileChar(s[1]) \/ ~isRankChar(s[2]) THEN NoSquare
    ELSE Square(IndexOf(FileChars, s[1]) - 1, IndexOf(RankChars, s[2]) - 1)

----------------------------------------------------------------------------
(* board.go: Fen *)

RECURSIVE fenRank(_, _, _, _)
\* one rank of field 1: runs of empty squares as a digit, pieces as letters
fenRank(bd, rank, file, empty) ==
    LET run == IF empty > 0 THEN << DigitChars[empty + 1] >> ELSE << >>
    IN IF file = 8 THEN run
       ELSE IF bd.Piece[Square(file, rank)] = NoPiece THEN fenRank(bd, rank, file + 1, empty + 1)
       ELSE run \o << PieceLetters(bd.Piece[Square(file, rank)]) >> \o fenRank(bd, rank, file + 1, 0)

RECURSIVE fenPieces(_, _)
fenPieces(bd, rank) ==
    IF rank = 0 THEN fenRank(bd, 0, 0, 0)
    ELSE fenRank(bd, rank, 0, 0) \o << "/" >> \o fenPieces(bd, rank - 1)

\* field 3: K/Q/k/q for rooks on the h/a files, the rook's file letter otherwise
fenCastle(bd) ==
    LET one(i, corner, letter, files) ==
            IF bd.CastleSq[i] = NoSquare THEN << >>
            ELSE IF bd.CastleSq[i] = corner THEN << letter >>
            ELSE << files[File(bd.CastleSq[i]) + 1] >>
        all == one(WhiteOO, H1, "K", UpperFileChars) \o one(WhiteOOO, A1, "Q", UpperFileChars)
               \o one(BlackOO, H8, "k", FileChars) \o one(BlackOOO, A8, "q", FileChars)
    IN IF all = << >> THEN << "-" >> ELSE all

\* Fen with the two counters written in the other order
Fen_CountersSwapped(bd) ==
    fenPieces(bd, 7) \o << " " >>
    \o << IF bd.SideToMove = White THEN "w" ELSE "b" >> \o << " " >>
    \o fenCastle(bd) \o << " " >>
    \o SqString(bd.EpSquare) \o << " " >> \o itoa(bd.MoveNr) \o << " " >> \o itoa(bd.Rule50)

Fen(bd) ==
    fenPieces(bd, 7) \o << " " >>
    \o << IF bd.SideToMove = White THEN "w" ELSE "b" >> \o << " " >>
    \o fenCastle(bd) \o << " " >>
    \o SqString(bd.EpSquare) \o << " " >> \o itoa(bd.Rule50) \o << " " >> \o itoa(bd.MoveNr)

----------------------------------------------------------------------------
(* board.go: setCanCastle, ParseFen *)

setCanCastle(bd, c, can) ==
    LET white == c = "K" \/ c = "Q" \/ IndexOf(UpperFileChars, c) # 0
        black == c = "k" \/ c = "q" \/ IndexOf(FileChars, c) # 0
        color == IF white THEN White ELSE Black
        kingSq == find(bd, color + King, A1, H8)
        r == Rank(kingSq)
        sq0 == IF c = "Q" \/ c = "q" THEN Square(FileA, r)
               ELSE IF c = "K" \/ c = "k" THEN Square(FileH, r)
               ELSE IF IndexOf(UpperFileChars, c) # 0 THEN Square(IndexOf(UpperFileChars, c) - 1, r)
               ELSE Square(IndexOf(FileChars, c) - 1, r)
        sq1 == IF c \in {"Q", "q", "K", "k"} THEN kingSq ELSE sq0
        rookSq == find(bd, color + Rook, sq0, sq1)
        wing == IF rookSq < kingSq THEN queenSide ELSE kingSide
    IN IF ~white /\ ~black THEN bd
       ELSE IF kingSq = NoSquare \/ RelativeRank(kingSq, color) # Rank1 THEN bd
       ELSE IF rookSq = NoSquare THEN bd
       ELSE [bd EXCEPT !.CastleSq[color + wing] = IF can THEN rookSq ELSE NoSquare]

isSpace(c) == c = " " \/ c = "\t"

\* the first 0-based index >= i whose character is not (space = wantSpace), or
\* the length of the text
skipWhile(fen, i, wantSpace) ==
    LET stops == {k \in i..(Len(fen) - 1) : isSpace(fen[k + 1]) # wantSpace}
    IN IF stops = {} THEN (IF i > Len(fen) THEN i ELSE Len(fen)) ELSE MinOf(stops)

\* nextField: the text and the 0-based bounds [i, j) of the next field; an empty
\* field switches to the default text, and every later field is then empty too
nextField(fen, j, def) ==
    LET i1 == skipWhile(fen, j, TRUE)
        j1 == skipWhile(fen, i1, FALSE)
    IN IF i1 = j1 THEN [fen |-> def, i |-> 0, j |-> Len(def)]
       ELSE [fen |-> fen, i |-> i1, j |-> j1]

fieldText(f) == SubSeq(f.fen, f.i + 1, f.j)

\* one character of field 1 of ParseFen; once err is set nothing more is read
parsePiece(st, c) ==
    IF st.err THEN st
    ELSE IF c = "/"
    THEN (IF st.rank - 1 < 0 THEN [st EXCEPT !.err = TRUE]
          ELSE [st EXCEPT !.rank = st.rank - 1, !.file = 0])
    ELSE IF isRankChar(c) THEN [st EXCEPT !.file = st.file + IndexOf(RankChars, c)]
    ELSE IF st.file > 7 \/ pieceFromChar(c) = NoPiece THEN [st EXCEPT !.err = TRUE]
    ELSE [st EXCEPT !.Piece[Square(st.file, st.rank)] = pieceFromChar(c),
                    !.file = st.file + 1]

RECURSIVE parsePieces(_, _, _, _)
\* the characters lo..hi (from 1) of the text in order, the range split in halves
parsePieces(st, fen, lo, hi) ==
    IF lo > hi THEN st
    ELSE IF lo = hi THEN parsePiece(st, fen[lo])
    ELSE LET first == parsePieces(st, fen, lo, (lo + hi) \div 2)
         IN IF first.err THEN first ELSE parsePieces(first, fen, (lo + hi) \div 2 + 1, hi)

RECURSIVE parseCastling(_, _, _)
parseCastling(bd, s, i) ==
    IF i > Len(s) THEN bd ELSE parseCastling(setCanCastle(bd, s[i], TRUE), s, i + 1)

StartPieces == <<"r","n","b","q","k","b","n","r","/","p","p","p","p","p","p","p","p","/",
                 "8","/","8","/","8","/","8","/",
                 "P","P","P","P","P","P","P","P","/","R","N","B","Q","K","B","N","R">>

\* new(Board): every field has its zero value
ZeroBoard ==
    [Piece |-> [sq \in 0..63 |-> NoPiece], SideToMove |-> White, MoveNr |-> 0, Rule50 |-> 0,
     EpSquare |-> 0, CastleSq |-> [i \in 0..3 |-> 0], checkFrom |-> A1, checkTo |-> A1]

ParseFen(fen) ==
    LET f1 == nextField(fen, 0, StartPieces)
        pp == parsePieces([file |-> 0, rank |-> 7, Piece |-> ZeroBoard.Piece, err |-> FALSE],
                          f1.fen, f1.i + 1, f1.j)
        f2 == nextField(f1.fen, f1.j, << "w" >>)
        f3 == nextField(f2.fen, f2.j, << "K", "Q", "k", "q" >>)
        f4 == nextField(f3.fen, f3.j, << "-" >>)
        f5 == nextField(f4.fen, f4.j, << "0" >>)
        f6 == nextField(f5.fen, f5.j, << "1" >>)
        b1 == [ZeroBoard EXCEPT !.Piece = pp.Piece,
                                !.SideToMove = IF fieldText(f2) = << "w" >> THEN White ELSE Black,
                                !.CastleSq = [i \in 0..3 |-> NoSquare]]
        b3 == IF fieldText(f3) = << "-" >> THEN b1 ELSE parseCastling(b1, fieldText(f3), 1)
        ep == IF fieldText(f4) = << "-" >> THEN NoSquare ELSE squareFromString(fieldText(f4))
        r50 == Atoi(fieldText(f5))
        nr == Atoi(fieldText(f6))
        bad == \/ pp.err
               \/ fieldText(f2) \notin {<< "w" >>, << "b" >>}
               \/ (fieldText(f4) # << "-" >> /\ ep = NoSquare)
               \/ r50.err
               \/ nr.err
    IN IF bad THEN [err |-> TRUE, board |-> ZeroBoard]
       ELSE [err |-> FALSE,
             board |-> [b3 EXCEPT !.EpSquare = ep, !.Rule50 = r50.n, !.MoveNr = nr.n]]

----------------------------------------------------------------------------
(* move.go: ParseMove *)

HasPrefix(s, pre) == Len(s) >= Len(pre) /\ SubSeq(s, 1, Len(pre)) = pre

InvalidMove == [move |-> NullMove, err |-> TRUE]

\* the scanner's variables before the first character
scanInit == [f0 |-> -1, r0 |-> -1, f1 |-> -1, r1 |-> -1, promotion |-> NoPiece]

\* one character of the scan for file/rank characters and a promotion piece
scanChar(st, c) ==
    LET re == st.promotion = Bishop /\ (isFileChar(c) \/ isRankChar(c))
        s1 == IF re THEN [st EXCEPT !.f0 = st.f1, !.f1 = FileB, !.promotion = NoPiece] ELSE st
    IN IF c \in {"b", "n", "r", "q", "B", "N", "R", "Q"}
       THEN [s1 EXCEPT !.promotion = Type(pieceFromChar(c))]
       ELSE IF c \in {"a", "c", "d", "e", "f", "g", "h"}
       THEN [s1 EXCEPT !.f0 = s1.f1, !.f1 = IndexOf(FileChars, c) - 1]
       ELSE IF isRankChar(c)
       THEN [s1 EXCEPT !.r0 = s1.r1, !.r1 = IndexOf(RankChars, c) - 1]
       ELSE s1

RECURSIVE scan(_, _, _)
scan(st, s, i) == IF i > Len(s) THEN st ELSE scan(scanChar(st, s[i]), s, i + 1)

\* whether the first character is taken as the piece type
takesPiece(s) ==
    /\ pieceFromChar(s[1]) # NoPiece
    /\ (s[1] # "b" \/ (Len(s) > 2 /\ isFileChar(s[2])))

\* castling recognised only as the king capturing its own rook
looksLikeCastle_OwnRookOnly(bd, st) ==
    /\ st.f0 # -1 /\ st.f1 # -1 /\ st.r0 # -1 /\ st.r1 # -1
    /\ bd.Piece[Square(st.f0, st.r0)] = my(bd, King)
    /\ bd.Piece[Square(st.f1, st.r1)] = my(bd, Rook)

\* the king moving two squares, or capturing its own rook
looksLikeCastle(bd, st) ==
    /\ st.f0 # -1 /\ st.f1 # -1 /\ st.r0 # -1 /\ st.r1 # -1
    /\ LET from == Square(st.f0, st.r0)
           to == Square(st.f1, st.r1)
       IN /\ bd.Piece[from] = my(bd, King)
          /\ (bd.Piece[to] = my(bd, Rook) \/ to = from + 2 \/ to = from - 2)

\* lines 33-107 of ParseMove (s is not "--" and has two characters or more):
\* the piece type, files, ranks and promotion the move must match, or err
parseComponents(bd, s) ==
    LET long == HasPrefix(s, <<"O", "-", "O", "-", "O">>) \/ HasPrefix(s, <<"0", "-", "0", "-", "0">>)
        short == HasPrefix(s, <<"O", "-", "O">>) \/ HasPrefix(s, <<"0", "-", "0">>)
        piece0 == IF takesPiece(s) THEN Type(pieceFromChar(s[1])) ELSE NoPiece
        rest == IF takesPiece(s) THEN Tail(s) ELSE s
        st == scan(scanInit, rest, 1)
        piece == IF long \/ short THEN NoPiece
                 ELSE IF piece0 = NoPiece /\ (st.f0 = -1 \/ st.r0 = -1) THEN Pawn
                 ELSE piece0
        castle == IF long THEN queenSide
                  ELSE IF short THEN kingSide
                  ELSE IF looksLikeCastle(bd, st)
                  THEN (IF Square(st.f1, st.r1) < Square(st.f0, st.r0) THEN queenSide ELSE kingSide)
                  ELSE -1
        cs == castleSquares(bd, castle)
        base == IF long \/ short THEN scanInit ELSE st
    IN IF castle = -1
       THEN [err |-> FALSE, piece |-> piece, f0 |-> st.f0, r0 |-> st.r0,
             f1 |-> st.f1, r1 |-> st.r1, promotion |-> st.promotion]
       ELSE IF cs.rf = NoSquare \/ cs.kf = NoSquare
       THEN [err |-> TRUE, piece |-> piece, f0 |-> -1, r0 |-> -1,
             f1 |-> -1, r1 |-> -1, promotion |-> NoPiece]
       ELSE [err |-> FALSE, piece |-> piece, f0 |-> File(cs.kf), r0 |-> Rank(cs.kf),
             f1 |-> File(cs.rf), r1 |-> Rank(cs.rf), promotion |-> base.promotion]

\* the test of the resolution loop without its legality conjunct
matches(bd, c, m) ==
    /\ (c.piece = NoPiece \/ Type(bd.Piece[m.From]) = c.piece)
    /\ (c.f0 = -1 \/ c.f0 = File(m.From))
    /\ (c.r0 = -1 \/ c.r0 = Rank(m.From))
    /\ (c.f1 = -1 \/ c.f1 = File(m.To))
    /\ (c.r1 = -1 \/ c.r1 = Rank(m.To))
    /\ Type(m.Promotion) = c.promotion

moveMatches(bd, c, m) == matches(bd, c, m) /\ isLegal(m, bd)

\* one turn of the resolution loop: a second match returns the error at once
resolveStep(bd, c, st, m) ==
    IF st.returned THEN st
    ELSE IF moveMatches(bd, c, m)
    THEN (IF st.move # NullMove THEN [move |-> NullMove, returned |-> TRUE]
          ELSE [st EXCEPT !.move = m])
    ELSE st

RECURSIVE resolveLoop(_, _, _, _, _, _)
\* the turns lo..hi of the loop in order, the range split in halves
resolveLoop(bd, c, moves, st, lo, hi) ==
    IF lo > hi THEN st
    ELSE IF lo = hi THEN resolveStep(bd, c, st, moves[lo])
    ELSE LET first == resolveLoop(bd, c, moves, st, lo, (lo + hi) \div 2)
         IN IF first.returned THEN first
            ELSE resolveLoop(bd, c, moves, first, (lo + hi) \div 2 + 1, hi)

\* lines 108-131: find the one move matching the parsed files, ranks, piece type
\* and promotion
resolve(bd, c) ==
    LET found(end) ==
            IF end.move = NullMove THEN InvalidMove ELSE [move |-> end.move, err |-> FALSE]
        among(moves) ==
            found(resolveLoop(bd, c, moves, [move |-> NullMove, returned |-> FALSE],
                              1, Len(moves)))
    IN among(pseudoLegalMoves(bd).moves)

ParseMove(bd, s) ==
    IF s = <<"-", "-">> THEN [move |-> NullMove, err |-> FALSE]
    ELSE IF Len(s) < 2 THEN InvalidMove
    ELSE LET find1(c) == IF c.err THEN InvalidMove ELSE resolve(bd, c)
         IN find1(parseComponents(bd, s))

----------------------------------------------------------------------------
(* move.go: Uci, San *)

\* interfaceNotation without the promotion letter
interfaceNotation_NoPromotion(m, bd) ==
    IF m = NullMove THEN <<"0", "0", "0", "0">>
    ELSE SqString(m.From) \o SqString(m.To)

interfaceNotation(m, bd) ==
    IF m = NullMove THEN <<"0", "0", "0", "0">>
    ELSE SqString(m.From) \o SqString(m.To)
         \o (IF m.Promotion # NoPiece THEN << PieceLetters(Type(m.Promotion)) >> ELSE << >>)

Uci(m, bd) == interfaceNotation(m, bd)

\* another legal move of an equal piece to the same square, from another square
competes(bd, m, n) ==
    /\ n.To = m.To /\ n.From # m.From
    /\ bd.Piece[n.From] = bd.Piece[m.From]
    /\ isLegal(n, bd)

\* sanBody without the source file or rank of a knight, bishop, rook or queen
sanBody_NoDisambiguation(m, bd) ==
    LET piece == Type(bd.Piece[m.From])
        isCapture == IF piece = Pawn THEN File(m.From) # File(m.To) ELSE bd.Piece[m.To] # NoPiece
    IN IF piece = King /\ bd.Piece[m.To] = my(bd, Rook)
       THEN (IF m.From < m.To THEN <<"O", "-", "O">> ELSE <<"O", "-", "O", "-", "O">>)
       ELSE (IF piece # Pawn THEN << PieceLetters(piece) >> ELSE << >>)
            \o (IF piece = Pawn /\ isCapture THEN << FileChars[File(m.From) + 1] >> ELSE << >>)
            \o (IF isCapture THEN << "x" >> ELSE << >>)
            \o SqString(m.To)
            \o (IF m.Promotion # NoPiece THEN << "=", PieceLetters(Type(m.Promotion)) >> ELSE << >>)

\* sanBody that counts the pseudo-legal moves of equal pieces, legal or not
sanBody_PinnedRivals(m, bd) ==
    LET piece == Type(bd.Piece[m.From])
        moves == pseudoLegalMoves(bd).moves
        slidesOrJumps == piece \in {Knight, Bishop, Rook, Queen}
        isCapture == IF piece = Pawn THEN File(m.From) # File(m.To) ELSE bd.Piece[m.To] # NoPiece
        rival(n) == n.To = m.To /\ n.From # m.From /\ bd.Piece[n.From] = bd.Piece[m.From]
        competitor(sameFile) ==
            \E i \in 1..Len(moves) :
                (File(moves[i].From) = File(m.From)) = sameFile /\ rival(moves[i])
        disambiguateByFile == IF piece = Pawn THEN isCapture ELSE slidesOrJumps /\ competitor(FALSE)
        disambiguateByRank == slidesOrJumps /\ competitor(TRUE)
    IN IF piece = King /\ bd.Piece[m.To] = my(bd, Rook)
       THEN (IF m.From < m.To THEN <<"O", "-", "O">> ELSE <<"O", "-", "O", "-", "O">>)
       ELSE (IF piece # Pawn THEN << PieceLetters(piece) >> ELSE << >>)
            \o (IF disambiguateByFile THEN << FileChars[File(m.From) + 1] >> ELSE << >>)
            \o (IF disambiguateByRank THEN << RankChars[Rank(m.From) + 1] >> ELSE << >>)
            \o (IF isCapture THEN << "x" >> ELSE << >>)
            \o SqString(m.To)
            \o (IF m.Promotion # NoPiece THEN << "=", PieceLetters(Type(m.Promotion)) >> ELSE << >>)

\* the part of the SAN before the check mark
sanBody(m, bd) ==
    LET piece == Type(bd.Piece[m.From])
        slidesOrJumps == piece \in {Knight, Bishop, Rook, Queen}
        isCapture == IF piece = Pawn THEN File(m.From) # File(m.To) ELSE bd.Piece[m.To] # NoPiece
        \* a competing move from another file (sameFile FALSE), from the same file (TRUE)
        competitor(moves, sameFile) ==
            \E i \in 1..Len(moves) :
                /\ (File(moves[i].From) = File(m.From)) = sameFile
                /\ competes(bd, m, moves[i])
        disambiguateByFile ==
            IF piece = Pawn THEN isCapture
            ELSE slidesOrJumps /\ competitor(pseudoLegalMoves(bd).moves, FALSE)
        disambiguateByRank ==
            slidesOrJumps /\ competitor(pseudoLegalMoves(bd).moves, TRUE)
    IN IF piece = King /\ bd.Piece[m.To] = my(bd, Rook)
       THEN (IF m.From < m.To THEN <<"O", "-", "O">> ELSE <<"O", "-", "O", "-", "O">>)
       ELSE (IF piece # Pawn THEN << PieceLetters(piece) >> ELSE << >>)
            \o (IF disambiguateByFile THEN << FileChars[File(m.From) + 1] >> ELSE << >>)
            \o (IF disambiguateByRank THEN << RankChars[Rank(m.From) + 1] >> ELSE << >>)
            \o (IF isCapture THEN << "x" >> ELSE << >>)
            \o SqString(m.To)
            \o (IF m.Promotion # NoPiece THEN << "=", PieceLetters(Type(m.Promotion)) >> ELSE << >>)

algebraicNotation(m, bd) ==
    IF m = NullMove THEN <<"-", "-">>
    ELSE LET mark(cm) == IF cm.check THEN (IF cm.mate THEN << "#" >> ELSE << "+" >>) ELSE << >>
         IN sanBody(m, bd) \o mark(IsCheckOrMate(MakeMove(bd, m)))

San(m, bd) == algebraicNotation(m, bd)

----------------------------------------------------------------------------
(* pgn lexer: a lexer is [input, pos, line, start, emitted]; pos and start count
   characters from 0 as in the source, input[k + 1] is the character at offset k *)

\* what next() returns at the end of the input; no character equals it
eof == "eof"

\* the zero item
NoItem == [typ |-> "itemNone", val |-> << >>]

NoPanic == [kind |-> "none", fmt |-> "", args |-> << >>]

newLexer(input, lineoff) ==
    [input |-> input, pos |-> 0, line |-> lineoff, start |-> 0, emitted |-> NoItem]

peek(l) == IF l.pos >= Len(l.input) THEN eof ELSE l.input[l.pos + 1]

\* next() called until pos = to: every newline passed adds one to line
consume(l, to) ==
    [l EXCEPT !.pos = to,
              !.line = l.line + Cardinality({k \in (l.pos + 1)..to : l.input[k] = "\n"})]

\* next(): the rune it returns is peek(l)
lexer_next(l) == IF l.pos >= Len(l.input) THEN l ELSE consume(l, l.pos + 1)

emit(l, t) ==
    [l EXCEPT !.emitted = [typ |-> t, val |-> SubSeq(l.input, l.start + 1, l.pos)],
              !.start = l.pos]

ignore(l) == [l EXCEPT !.start = l.pos]

\* consumes the run of runes from the set, up to the first other rune or the end
acceptRun(l, runes) ==
    consume(l, MinOf({k \in l.pos..Len(l.input) :
                        k = Len(l.input) \/ l.input[k + 1] \notin runes}))

\* consumes up to and including the first rune from the set; all the input and
\* found = FALSE when there is none
lexer_find(l, runes) ==
    LET upTo(hits) == [lex |-> consume(l, IF hits = {} THEN Len(l.input) ELSE MinOf(hits)),
                       found |-> hits # {}]
    IN upTo({k \in (l.pos + 1)..Len(l.input) : l.input[k] \in runes})

\* recover that stops just after the first newline
lexer_recover_AtNewline(l) == ignore(lexer_find(l, {"\n"}).lex)

\* the loop ends just after the first newline that follows a newline and a run of
\* spaces, tabs and carriage returns, or at the end of the input
lexer_recover(l) ==
    LET blank(k, m) == /\ l.input[k] = "\n" /\ l.input[m] = "\n"
                       /\ \A j \in (k + 1)..(m - 1) : l.input[j] \in {" ", "\t", "\r"}
        upTo(ends) == ignore(consume(l, IF ends = {} THEN Len(l.input) ELSE MinOf(ends)))
    IN upTo({m \in (l.pos + 2)..Len(l.input) : \E k \in (l.pos + 1)..(m - 1) : blank(k, m)})

\* the line and column of the position pos + offset (offset <= 0)
coords(l, offset) ==
    LET at == l.pos + offset
        breaks == {col \in 1..at : l.input[at - col + 1] = "\n"}
    IN [line |-> l.line - Cardinality({k \in (at + 1)..l.pos : l.input[k] = "\n"}),
        col |-> IF breaks = {} THEN at + 1 ELSE MinOf(breaks)]

Digits == {"0", "1", "2", "3", "4", "5", "6", "7", "8", "9"}
Letters ==
    {"a", "b", "c", "d", "e", "f", "g", "h", "i", "j", "k", "l", "m", "n", "o", "p", "q",
     "r", "s", "t", "u", "v", "w", "x", "y", "z", "A", "B", "C", "D", "E", "F", "G", "H",
     "I", "J", "K", "L", "M", "N", "O", "P", "Q", "R", "S", "T", "U", "V", "W", "X", "Y",
     "Z"}

\* l.start is the offset of the digit just consumed
\* number() that never looks for a game result
number_DigitsOnly(l) == emit(acceptRun(l, Digits), "itemMoveNumber")

number(l) ==
    LET from == SubSeq(l.input, l.start + 1, Len(l.input))
        results == << <<"1", "-", "0">>, <<"0", "-", "1">>,
                      <<"1", "/", "2", "-", "1", "/", "2">> >>
        hits == {i \in 1..3 : HasPrefix(from, results[i])}
    IN IF hits # {}
       THEN emit([l EXCEPT !.pos = l.start + Len(results[MinOf(hits)])], "itemResult")
       ELSE emit(acceptRun(l, Digits), "itemMoveNumber")

RECURSIVE lexer_string(_)
\* the opening quote is consumed; a backslash takes the next rune with it
lexer_string(l) ==
    LET r == peek(l)
    IN IF r = "\\" THEN lexer_string(lexer_next(lexer_next(l)))
       ELSE IF r = eof \/ r = "\n"
       THEN [lex |-> lexer_next(l),
             panic |-> [kind |-> "lexPanic", fmt |-> "unclosed quoted string", args |-> << >>]]
       ELSE IF r = "\"" THEN [lex |-> emit(lexer_next(l), "itemString"), panic |-> NoPanic]
       ELSE lexer_string(lexer_next(l))

RECURSIVE itemLoop(_)
\* one turn of the loop of item(): l.emitted is the zero item
itemLoop(l0) ==
    LET r == peek(l0)
        l == lexer_next(l0)
        done(lx) == [lex |-> lx, panic |-> NoPanic]
        fail(lx, fmt, args) ==
            [lex |-> lx, panic |-> [kind |-> "lexPanic", fmt |-> fmt, args |-> args]]
        comment(f) == IF f.found THEN done(emit(f.lex, "itemComment"))
                      ELSE fail(f.lex, "unclosed block comment", << >>)
        nag(lx) == IF lx.pos - lx.start < 2 THEN fail(lx, "expected digit", << >>)
                   ELSE done(emit(lx, "itemAnnotation"))
    IN IF r = eof THEN done(emit(l, "itemEOF"))
       ELSE IF r \in {" ", "\t", "\r", "\n"}
       THEN itemLoop(ignore(acceptRun(l, {" ", "\t", "\r", "\n"})))
       ELSE IF r \in {";", "%"} THEN itemLoop(ignore(lexer_find(l, {"\n"}).lex))
       ELSE IF r = "[" THEN done(emit(l, "itemLBracket"))
       ELSE IF r = "]" THEN done(emit(l, "itemRBracket"))
       ELSE IF r = "(" THEN done(emit(l, "itemLParen"))
       ELSE IF r = ")" THEN done(emit(l, "itemRParen"))
       ELSE IF r = "*" THEN done(emit(l, "itemResult"))
       ELSE IF r = "{" THEN comment(lexer_find(l, {"}"}))
       ELSE IF r = "\"" THEN lexer_string(l)
       ELSE IF r = "$" THEN nag(acceptRun(l, Digits))
       ELSE IF r \in {"!", "?"} THEN done(emit(acceptRun(l, {"!", "?"}), "itemAnnotation"))
       ELSE IF r \in Digits THEN done(number(l))
       ELSE IF r = "." THEN done(emit(acceptRun(l, {"."}), "itemDots"))
       ELSE IF r \notin Letters THEN fail(l, "unexpected character: %#U", <<r>>)
       ELSE done(emit(acceptRun(l, Letters \cup Digits \cup {"_", "+", "#", "=", ":", "-"}),
                      "itemSymbol"))

\* item(): the next item is lex.emitted, unless the lexer panics
lexer_item(l) == itemLoop([l EXCEPT !.emitted = NoItem])

----------------------------------------------------------------------------
(* pgn parser: a parser is [lex, pos, item, lastitem]; a panic of the lexer or the
   parser travels in the panic field of a result until recover turns it into a
   ParseError *)

\* the nil pointer and the nil error
nil == [nil |-> TRUE]

newParser(lex) == [lex |-> lex, pos |-> 0, item |-> NoItem, lastitem |-> NoItem]

\* panicf of the parser; a Message keeps the format and its arguments apart
parsePanic(fmt, args) == [kind |-> "parsePanic", fmt |-> fmt, args |-> args]

itemNames(typ) ==
    CASE typ = "itemNone" -> "<none>"
      [] typ = "itemEOF" -> "<EOF>"
      [] typ = "itemLBracket" -> "'['"
      [] typ = "itemRBracket" -> "']'"
      [] typ = "itemLParen" -> "'('"
      [] typ = "itemRParen" -> "')'"
      [] typ = "itemSymbol" -> "<symbol>"
      [] typ = "itemString" -> "<string>"
      [] typ = "itemComment" -> "<comment>"
      [] typ = "itemAnnotation" -> "<annotation>"
      [] typ = "itemResult" -> "<result>"
      [] typ = "itemMoveNumber" -> "<movenr>"
      [] typ = "itemDots" -> "<dots>"

\* recover that reports every panic at the rune the lexer read last
parser_recover_AtLexer(q, panic) ==
    LET error(at) == [Line |-> at.line, Col |-> at.col,
                      Message |-> [fmt |-> panic.fmt, args |-> panic.args]]
    IN [p |-> [q EXCEPT !.lex = lexer_recover(q.lex), !.item = NoItem],
        err |-> error(coords(q.lex, -1))]

\* recover that leaves the lexer and the current item as they are
parser_recover_KeepsParser(q, panic) ==
    LET error(at) == [Line |-> at.line, Col |-> at.col,
                      Message |-> [fmt |-> panic.fmt, args |-> panic.args]]
    IN [p |-> q,
        err |-> error(IF panic.kind = "lexPanic" THEN coords(q.lex, -1)
                      ELSE coords(q.lex, q.pos - q.lex.pos))]

\* recover of the parser: the ParseError for the panic, the lexer moved to the next
\* game, the current item dropped
parser_recover(q, panic) ==
    LET error(at) == [Line |-> at.line, Col |-> at.col,
                      Message |-> [fmt |-> panic.fmt, args |-> panic.args]]
    IN [p |-> [q EXCEPT !.lex = lexer_recover(q.lex), !.item = NoItem],
        err |-> error(IF panic.kind = "lexPanic" THEN coords(q.lex, -1)
                      ELSE coords(q.lex, q.pos - q.lex.pos))]

\* next(): lastitem and pos are set before the lexer runs, item after it
parser_next(q) ==
    LET got(r) ==
            [p |-> [q EXCEPT !.lastitem = q.item, !.pos = q.lex.pos, !.lex = r.lex,
                             !.item = IF r.panic.kind = "none" THEN r.lex.emitted ELSE q.item],
             panic |-> r.panic]
    IN got(lexer_item(q.lex))

RECURSIVE accept(_, _)
accept(q, typ) ==
    LET skipped(n) == IF n.panic.kind # "none" THEN [p |-> n.p, ok |-> FALSE, panic |-> n.panic]
                      ELSE accept(n.p, typ)
        taken(n) == [p |-> n.p, ok |-> n.panic.kind = "none", panic |-> n.panic]
    IN IF q.item.typ = "itemComment" THEN skipped(parser_next(q))
       ELSE IF q.item.typ # typ THEN [p |-> q, ok |-> FALSE, panic |-> NoPanic]
       ELSE taken(parser_next(q))

\* the item expected is p.lastitem of the result
expect(q, typ) ==
    LET checked(a) ==
            IF a.ok \/ a.panic.kind # "none" THEN [p |-> a.p, panic |-> a.panic]
            ELSE [p |-> a.p,
                  panic |-> parsePanic("expected %s, got %s",
                                       <<itemNames(typ), itemNames(a.p.item.typ)>>)]
    IN checked(accept(q, typ))

\* strings.TrimSpace of s without its first and last character
unquote(s) ==
    LET space == {" ", "\t", "\n", "\r", "\f"}
        inner == SubSeq(s, 2, Len(s) - 1)
        kept == {k \in 1..Len(inner) : inner[k] \notin space}
    IN IF Len(s) < 2 THEN s
       ELSE IF kept = {} THEN << >>
       ELSE SubSeq(inner, MinOf(kept), MaxOf(kept))

\* every backslash of the unquoted string is removed
unescape(s) == SelectSeq(unquote(s), LAMBDA c : c # "\\")

\* tags[tag] = val
setTag(tags, tag, val) ==
    [k \in DOMAIN tags \cup {tag} |-> IF k = tag THEN val ELSE tags[k]]

\* tags[tag]; a missing key reads as the empty string
getTag(tags, tag) == IF tag \in DOMAIN tags THEN tags[tag] ELSE << >>

ResultTag == <<"R", "e", "s", "u", "l", "t">>
FENTag == <<"F", "E", "N">>

\* a variation root or a move in the game tree; pointers are indices into the nodes
\* of the game, 0 is the nil pointer
newNode(parent, move, board) ==
    [Parent |-> parent, Next |-> 0, Variation |-> 0, Move |-> move, Board |-> board,
     Comment |-> << >>, Nags |-> << >>]

NewGame(tags) ==
    LET made(fen) ==
            IF fen.err
            THEN [game |-> nil, err |-> TRUE]
            ELSE [game |-> [Tags |-> tags, Root |-> 1,
                            nodes |-> << newNode(0, NullMove, fen.board) >>,
                            movelex |-> nil, plies |-> 0],
                  err |-> FALSE]
    IN made(ParseFen(getTag(tags, FENTag)))

RECURSIVE tagLoop(_)
\* the loop over the tag pairs of readGame; st is [p, tags, mtext0, mtextline, panic]
tagLoop(st) ==
    LET fail(r) == [st EXCEPT !.p = r.p, !.panic = r.panic]
        closed(tag, val, e) ==
            IF e.panic.kind # "none" THEN fail(e)
            ELSE tagLoop([p |-> e.p, tags |-> setTag(st.tags, tag, unescape(val)),
                          mtext0 |-> e.p.pos, mtextline |-> e.p.lex.line, panic |-> NoPanic])
        valued(tag, e) ==
            IF e.panic.kind # "none" THEN fail(e)
            ELSE closed(tag, e.p.lastitem.val, expect(e.p, "itemRBracket"))
        named(e) ==
            IF e.panic.kind # "none" THEN fail(e)
            ELSE valued(e.p.lastitem.val, expect(e.p, "itemString"))
        opened(a) ==
            IF a.panic.kind # "none" THEN fail(a)
            ELSE IF ~a.ok THEN [st EXCEPT !.p = a.p]
            ELSE named(expect(a.p, "itemSymbol"))
    IN opened(accept(st.p, "itemLBracket"))

RECURSIVE scanLoop_KeepsTags(_)
\* a scan that never takes the result of the movetext into the tags
scanLoop_KeepsTags(st) ==
    LET typ == st.p.item.typ
        val == st.p.item.val
        counted ==
            [st EXCEPT !.variant = IF typ = "itemLParen" THEN st.variant + 1
                                   ELSE IF typ = "itemRParen" THEN st.variant - 1
                                   ELSE st.variant,
                       !.plies = IF typ = "itemSymbol" /\ st.variant = 0 THEN st.plies + 1
                                 ELSE st.plies]
        moved(n) == IF n.panic.kind # "none" THEN [counted EXCEPT !.p = n.p, !.panic = n.panic]
                    ELSE scanLoop_KeepsTags([counted EXCEPT !.p = n.p])
    IN IF typ \in {"itemLBracket", "itemEOF"} THEN st
       ELSE IF typ = "itemResult" /\ ResultTag \in DOMAIN st.tags /\ st.tags[ResultTag] # val
       THEN [st EXCEPT !.panic = parsePanic("game result %q differs from Result tag %q",
                                            <<val, st.tags[ResultTag]>>)]
       ELSE moved(parser_next(st.p))

RECURSIVE scanLoop_NoMismatch(_)
\* a scan that lets a result differing from the Result tag pass
scanLoop_NoMismatch(st) ==
    LET typ == st.p.item.typ
        val == st.p.item.val
        counted ==
            [st EXCEPT !.variant = IF typ = "itemLParen" THEN st.variant + 1
                                   ELSE IF typ = "itemRParen" THEN st.variant - 1
                                   ELSE st.variant,
                       !.plies = IF typ = "itemSymbol" /\ st.variant = 0 THEN st.plies + 1
                                 ELSE st.plies,
                       !.tags = IF typ = "itemResult" /\ ResultTag \notin DOMAIN st.tags
                                THEN setTag(st.tags, ResultTag, val) ELSE st.tags]
        moved(n) == IF n.panic.kind # "none" THEN [counted EXCEPT !.p = n.p, !.panic = n.panic]
                    ELSE scanLoop_NoMismatch([counted EXCEPT !.p = n.p])
    IN IF typ \in {"itemLBracket", "itemEOF"} THEN st
       ELSE moved(parser_next(st.p))

RECURSIVE scanLoop(_)
\* the quick scan of the movetext in readGame; st is [p, tags, plies, variant, panic]
scanLoop(st) ==
    LET typ == st.p.item.typ
        val == st.p.item.val
        counted ==
            [st EXCEPT !.variant = IF typ = "itemLParen" THEN st.variant + 1
                                   ELSE IF typ = "itemRParen" THEN st.variant - 1
                                   ELSE st.variant,
                       !.plies = IF typ = "itemSymbol" /\ st.variant = 0 THEN st.plies + 1
                                 ELSE st.plies,
                       !.tags = IF typ = "itemResult" /\ ResultTag \notin DOMAIN st.tags
                                THEN setTag(st.tags, ResultTag, val) ELSE st.tags]
        moved(n) == IF n.panic.kind # "none" THEN [counted EXCEPT !.p = n.p, !.panic = n.panic]
                    ELSE scanLoop([counted EXCEPT !.p = n.p])
    IN IF typ \in {"itemLBracket", "itemEOF"} THEN st
       ELSE IF typ = "itemResult" /\ ResultTag \in DOMAIN st.tags /\ st.tags[ResultTag] # val
       THEN [st EXCEPT !.panic = parsePanic("game result %q differs from Result tag %q",
                                            <<val, st.tags[ResultTag]>>)]
       ELSE moved(parser_next(st.p))

\* readGame with its deferred recover: [p, game, err, at]; game and err are both nil
\* when no more games are available; at is where the lexer stood at the return or at
\* the panic
readGame(q0) ==
    LET failed(r) == [p |-> parser_recover(r.p, r.panic).p, game |-> nil,
                      err |-> parser_recover(r.p, r.panic).err, at |-> r.p.lex.pos]
        panics(q, fmt, args) == failed([p |-> q, panic |-> parsePanic(fmt, args)])
        withResult(tags) == IF getTag(tags, ResultTag) = << >>
                            THEN setTag(tags, ResultTag, <<"*">>) ELSE tags
        made(q, count, mtext0, mtextline, g) ==
            IF g.err THEN panics(q, "%s", << "FEN tag: %s" >>)
            ELSE [p |-> q,
                  game |-> [g.game EXCEPT !.plies = count,
                                          !.movelex = newLexer(SubSeq(q.lex.input, mtext0 + 1, q.pos),
                                                               mtextline)],
                  err |-> nil, at |-> q.lex.pos]
        scanned(s, mtext0, mtextline) ==
            IF s.panic.kind # "none" THEN failed(s)
            ELSE made(s.p, s.plies, mtext0, mtextline, NewGame(withResult(s.tags)))
        tagged(t) ==
            IF t.panic.kind # "none" THEN failed(t)
            ELSE IF DOMAIN t.tags = {} THEN panics(t.p, "no game tags found", << >>)
            ELSE scanned(scanLoop([p |-> t.p, tags |-> t.tags, plies |-> 0, variant |-> 0,
                                   panic |-> NoPanic]),
                         t.mtext0, t.mtextline)
        started(a) ==
            IF a.panic.kind # "none" THEN failed(a)
            ELSE IF a.ok THEN [p |-> a.p, game |-> nil, err |-> nil, at |-> a.p.lex.pos]
            ELSE tagged(tagLoop([p |-> a.p, tags |-> << >>, mtext0 |-> a.p.pos,
                                 mtextline |-> a.p.lex.line, panic |-> NoPanic]))
        first(n) == IF n.panic.kind # "none" THEN failed(n) ELSE started(accept(n.p, "itemEOF"))
    IN IF q0.item = NoItem THEN first(parser_next(q0)) ELSE started(accept(q0, "itemEOF"))

----------------------------------------------------------------------------
(* pgn game tree and ParseMoves *)

\* Plies that counts the root with the moves of the main line
Plies_FromRoot(g) ==
    LET RECURSIVE line(_)
        line(n) == IF n = 0 THEN 0 ELSE 1 + line(g.nodes[n].Next)
    IN IF g.nodes[g.Root].Next = 0 THEN g.plies ELSE line(g.Root)

\* g.Plies(): the count of the header pass while the root has no next move, else the
\* length of the main line
Plies(g) ==
    LET RECURSIVE line(_)
        line(n) == IF n = 0 THEN 0 ELSE 1 + line(g.nodes[n].Next)
    IN IF g.nodes[g.Root].Next = 0 THEN g.plies ELSE line(g.nodes[g.Root].Next)

\* n.Insert(move): the new node is the last of nodes
Insert(nodes, n, move) ==
    Append([nodes EXCEPT ![n].Next = Len(nodes) + 1],
           newNode(n, move, MakeMove(nodes[n].Board, move)))

\* a walk that stays at the node, so that a new variation replaces the first one
lastAlternative_First(nodes, v) == v

RECURSIVE lastAlternative(_, _)
\* the node NewVariation hangs the new variation on: it follows Variation.Next from v
\* until a node without variation or with an empty one
lastAlternative(nodes, v) ==
    IF nodes[v].Variation = 0 \/ nodes[nodes[v].Variation].Next = 0 THEN v
    ELSE lastAlternative(nodes, nodes[nodes[v].Variation].Next)

\* NewVariation that gives the new root the position after the move of the node
NewVariation_BoardOfNode(nodes, n) ==
    Append([nodes EXCEPT ![lastAlternative(nodes, n)].Variation = Len(nodes) + 1],
           newNode(nodes[n].Parent, NullMove, nodes[n].Board))

\* n.NewVariation(): the root of the new variation is the last of nodes
NewVariation(nodes, n) ==
    Append([nodes EXCEPT ![lastAlternative(nodes, n)].Variation = Len(nodes) + 1],
           newNode(nodes[n].Parent, NullMove, nodes[nodes[n].Parent].Board))

IsRoot(nodes, n) == nodes[n].Parent = 0 \/ nodes[nodes[n].Parent].Next # n

\* AddNag that appends whatever the list holds
AddNag_Always(nodes, n, x) == [nodes EXCEPT ![n].Nags = Append(nodes[n].Nags, x)]

AddNag(nodes, n, x) ==
    IF \E i \in 1..Len(nodes[n].Nags) : nodes[n].Nags[i] = x THEN nodes
    ELSE [nodes EXCEPT ![n].Nags = Append(nodes[n].Nags, x)]

\* n.DropNag(x): the last NAG is copied over the first x and the local slice is
\* shortened; n.Nags keeps its length
DropNag(nodes, n, x) ==
    LET nags == nodes[n].Nags
        hits == {i \in 1..Len(nags) : nags[i] = x}
    IN IF hits = {} THEN nodes
       ELSE [nodes EXCEPT ![n].Nags = [nags EXCEPT ![MinOf(hits)] = nags[Len(nags)]]]

\* p.nag(s): the Nag of an annotation, or the panic
nag(s) ==
    LET words == << <<"!">>, <<"?">>, <<"!", "!">>, <<"?", "?">>, <<"!", "?">>, <<"?", "!">> >>
        invalid == [n |-> 0, panic |-> parsePanic("%q: invalid annotation", <<s>>)]
    IN IF Len(s) >= 2 /\ s[1] = "$"
       THEN (IF Atoi(Tail(s)).err THEN invalid ELSE [n |-> Atoi(Tail(s)).n, panic |-> NoPanic])
       ELSE IF \E i \in 1..6 : words[i] = s
       THEN [n |-> CHOOSE i \in 1..6 : words[i] = s, panic |-> NoPanic]
       ELSE invalid

RECURSIVE variation_AllowsOpenEnd(_, _, _)
\* variation that takes the end of the movetext inside a variation for its end
variation_AllowsOpenEnd(st, node, level) ==
    LET typ == st.p.item.typ
        val == st.p.item.val
        panics(fmt, args) == [st EXCEPT !.panic = parsePanic(fmt, args)]
        \* p.next() at the end of a turn, then the next turn
        turn(s, nd, n) == IF n.panic.kind # "none" THEN [s EXCEPT !.p = n.p, !.panic = n.panic]
                          ELSE variation_AllowsOpenEnd([s EXCEPT !.p = n.p], nd, level)
        continue(s, nd) == turn(s, nd, parser_next(s.p))
        move(m) == IF m.err THEN panics("%q: %s", <<val, "invalid move">>)
                   ELSE continue([st EXCEPT !.nodes = Insert(st.nodes, node, m.move)],
                                 Len(st.nodes) + 1)
        annotated(x) == IF x.panic.kind # "none" THEN [st EXCEPT !.panic = x.panic]
                        ELSE continue([st EXCEPT !.nodes = AddNag(st.nodes, node, x.n)], node)
        inner(s) == IF s.panic.kind # "none" THEN s ELSE continue(s, node)
        descend(n) == IF n.panic.kind # "none" THEN [st EXCEPT !.p = n.p, !.panic = n.panic]
                      ELSE inner(variation_AllowsOpenEnd([st EXCEPT !.p = n.p,
                                                      !.nodes = NewVariation(st.nodes, node)],
                                           Len(st.nodes) + 1, level + 1))
    IN IF typ = "itemSymbol" THEN move(ParseMove(st.nodes[node].Board, val))
       ELSE IF typ = "itemComment"
       THEN continue([st EXCEPT !.nodes[node].Comment = Append(@, unquote(val))], node)
       ELSE IF typ = "itemAnnotation" THEN annotated(nag(val))
       ELSE IF typ = "itemLParen"
       THEN (IF IsRoot(st.nodes, node) THEN panics("variation without a preceeding move", << >>)
             ELSE descend(parser_next(st.p)))
       ELSE IF typ = "itemRParen"
       THEN (IF level = 0 THEN panics("unexpected right parenthesis", << >>) ELSE st)
       ELSE IF typ \in {"itemEOF", "itemLBracket"}
       THEN st
       ELSE IF typ \in {"itemMoveNumber", "itemDots", "itemResult"} THEN continue(st, node)
       ELSE panics("unexpected token: %s", <<itemNames(typ)>>)

RECURSIVE variation(_, _, _)
\* p.variation(node, level) from the current item on; st is [p, nodes, panic]
variation(st, node, level) ==
    LET typ == st.p.item.typ
        val == st.p.item.val
        panics(fmt, args) == [st EXCEPT !.panic = parsePanic(fmt, args)]
        \* p.next() at the end of a turn, then the next turn
        turn(s, nd, n) == IF n.panic.kind # "none" THEN [s EXCEPT !.p = n.p, !.panic = n.panic]
                          ELSE variation([s EXCEPT !.p = n.p], nd, level)
        continue(s, nd) == turn(s, nd, parser_next(s.p))
        move(m) == IF m.err THEN panics("%q: %s", <<val, "invalid move">>)
                   ELSE continue([st EXCEPT !.nodes = Insert(st.nodes, node, m.move)],
                                 Len(st.nodes) + 1)
        annotated(x) == IF x.panic.kind # "none" THEN [st EXCEPT !.panic = x.panic]
                        ELSE continue([st EXCEPT !.nodes = AddNag(st.nodes, node, x.n)], node)
        inner(s) == IF s.panic.kind # "none" THEN s ELSE continue(s, node)
        descend(n) == IF n.panic.kind # "none" THEN [st EXCEPT !.p = n.p, !.panic = n.panic]
                      ELSE inner(variation([st EXCEPT !.p = n.p,
                                                      !.nodes = NewVariation(st.nodes, node)],
                                           Len(st.nodes) + 1, level + 1))
    IN IF typ = "itemSymbol" THEN move(ParseMove(st.nodes[node].Board, val))
       ELSE IF typ = "itemComment"
       THEN continue([st EXCEPT !.nodes[node].Comment = Append(@, unquote(val))], node)
       ELSE IF typ = "itemAnnotation" THEN annotated(nag(val))
       ELSE IF typ = "itemLParen"
       THEN (IF IsRoot(st.nodes, node) THEN panics("variation without a preceeding move", << >>)
             ELSE descend(parser_next(st.p)))
       ELSE IF typ = "itemRParen"
       THEN (IF level = 0 THEN panics("unexpected right parenthesis", << >>) ELSE st)
       ELSE IF typ \in {"itemEOF", "itemLBracket"}
       THEN (IF level # 0 THEN panics("%d unclosed variations", <<level>>) ELSE st)
       ELSE IF typ \in {"itemMoveNumber", "itemDots", "itemResult"} THEN continue(st, node)
       ELSE panics("unexpected token: %s", <<itemNames(typ)>>)

\* p.parseMoves(root) with its deferred recover, on the lexer lex: [lex, nodes, err]
parseMoves(lex, nodes, root) ==
    LET ended(s) == IF s.panic.kind = "none" THEN [lex |-> s.p.lex, nodes |-> s.nodes, err |-> nil]
                    ELSE [lex |-> parser_recover(s.p, s.panic).p.lex, nodes |-> s.nodes,
                          err |-> parser_recover(s.p, s.panic).err]
        first(n) == IF n.panic.kind # "none"
                    THEN ended([p |-> n.p, nodes |-> nodes, panic |-> n.panic])
                    ELSE ended(variation([p |-> n.p, nodes |-> nodes, panic |-> NoPanic], root, 0))
    IN first(parser_next(newParser(lex)))

\* ParseMoves that keeps the moves it could read and returns no error
ParseMoves_Silent(game) ==
    IF game.movelex = nil THEN [game |-> game, err |-> nil]
    ELSE [game |-> [game EXCEPT !.movelex = nil,
                                !.nodes = parseMoves(game.movelex, game.nodes, game.Root).nodes],
          err |-> nil]

\* ParseMoves that leaves the lexer of the movetext with the game
ParseMoves_KeepsLexer(game) ==
    LET parsed(r) ==
            IF r.err # nil
            THEN [game |-> [game EXCEPT !.movelex = r.lex,
                                        !.nodes = Append(r.nodes, game.nodes[game.Root]),
                                        !.Root = Len(r.nodes) + 1],
                  err |-> r.err]
            ELSE [game |-> [game EXCEPT !.movelex = [game.movelex EXCEPT !.pos = 0],
                                        !.nodes = r.nodes],
                  err |-> nil]
    IN IF game.movelex = nil THEN [game |-> game, err |-> nil]
       ELSE parsed(parseMoves(game.movelex, game.nodes, game.Root))

\* ParseMoves that leaves game.Root as the failed parse left it
ParseMoves_KeepsRoot(game) ==
    LET parsed(r) ==
            IF r.err # nil
            THEN [game |-> [game EXCEPT !.movelex = r.lex, !.nodes = r.nodes], err |-> r.err]
            ELSE [game |-> [game EXCEPT !.movelex = nil, !.nodes = r.nodes], err |-> nil]
    IN IF game.movelex = nil THEN [game |-> game, err |-> nil]
       ELSE parsed(parseMoves(game.movelex, game.nodes, game.Root))

\* DB.ParseMoves(game): the game afterwards and the error returned.  The parser works
\* on the lexer game.movelex points to, so the lexer is left where the parser stopped;
\* on an error the game gets a new root node holding the copy of the old one
ParseMoves(game) ==
    LET parsed(r) ==
            IF r.err # nil
            THEN [game |-> [game EXCEPT !.movelex = r.lex,
                                        !.nodes = Append(r.nodes, game.nodes[game.Root]),
                                        !.Root = Len(r.nodes) + 1],
                  err |-> r.err]
            ELSE [game |-> [game EXCEPT !.movelex = nil, !.nodes = r.nodes], err |-> nil]
    IN IF game.movelex = nil THEN [game |-> game, err |-> nil]
       ELSE parsed(parseMoves(game.movelex, game.nodes, game.Root))

----------------------------------------------------------------------------
(* the positions the driver starts from, as FEN text for ParseFen *)

Fens == <<
    \* 1: the starting position, from the defaults of an empty FEN
    \*    ""
    <<>>,
    \* 2: movegenTests: the white knight is pinned, short castling passes an attacked square
    \*    r6k/1P4pp/8/2pPr3/3b4/3Q4/P3N3/R3K2R w KQ c6 0 1
    <<"r", "6", "k", "/", "1", "P", "4", "p", "p", "/", "8", "/", "2", "p", "P", "r",
      "3", "/", "3", "b", "4", "/", "3", "Q", "4", "/", "P", "3", "N", "3", "/", "R", "3",
      "K", "2", "R", " ", "w", " ", "K", "Q", " ", "c", "6", " ", "0", " ", "1">>,
    \* 3: parseMoveBoard: ambiguous knights, a pinned pawn, en passant, promotions, castling
    \*    r3k2r/p7/2n1p3/3nQP2/5pP1/8/1p6/R5K1 b kq g3 0 1
    <<"r", "3", "k", "2", "r", "/", "p", "7", "/", "2", "n", "1", "p", "3", "/", "3",
      "n", "Q", "P", "2", "/", "5", "p", "P", "1", "/", "8", "/", "1", "p", "6", "/", "R",
      "5", "K", "1", " ", "b", " ", "k", "q", " ", "g", "3", " ", "0", " ", "1">>,
    \* 4: the white king is in check from a pawn and still has the castling right
    \*    4k3/8/8/8/8/8/3p4/4K2R w K - 0 1
    <<"4", "k", "3", "/", "8", "/", "8", "/", "8", "/", "8", "/", "8", "/", "3", "p",
      "4", "/", "4", "K", "2", "R", " ", "w", " ", "K", " ", "-", " ", "0", " ", "1">>,
    \* 5: Chess960: the castling rooks stand on the b- and g-files
    \*    1r2k1r1/1p4p1/8/8/8/8/1P4P1/1R2K1R1 w GBgb - 0 1
    <<"1", "r", "2", "k", "1", "r", "1", "/", "1", "p", "4", "p", "1", "/", "8", "/",
      "8", "/", "8", "/", "8", "/", "1", "P", "4", "P", "1", "/", "1", "R", "2", "K", "1",
      "R", "1", " ", "w", " ", "G", "B", "g", "b", " ", "-", " ", "0", " ", "1">>,
    \* 6: stalemate, Black to move
    \*    7k/5Q2/6K1/8/8/8/8/8 b - - 12 30
    <<"7", "k", "/", "5", "Q", "2", "/", "6", "K", "1", "/", "8", "/", "8", "/", "8",
      "/", "8", "/", "8", " ", "b", " ", "-", " ", "-", " ", "1", "2", " ", "3", "0">>,
    \* 7: Black can castle long with check
    \*    r3k3/8/8/8/8/8/8/3K4 b q - 99 60
    <<"r", "3", "k", "3", "/", "8", "/", "8", "/", "8", "/", "8", "/", "8", "/", "8",
      "/", "3", "K", "4", " ", "b", " ", "q", " ", "-", " ", "9", "9", " ", "6", "0">>,
    \* 8: two knights on one file, two bishops on one rank
    \*    4k3/8/8/N7/8/8/1B3B2/N3K3 w - - 0 1
    <<"4", "k", "3", "/", "8", "/", "8", "/", "N", "7", "/", "8", "/", "8", "/", "1",
      "B", "3", "B", "2", "/", "N", "3", "K", "3", " ", "w", " ", "-", " ", "-", " ", "0",
      " ", "1">>,
    \* 9: three knights reaching b6
    \*    n1n1k3/8/8/n7/8/8/8/4K3 b - - 0 1
    <<"n", "1", "n", "1", "k", "3", "/", "8", "/", "8", "/", "n", "7", "/", "8", "/",
      "8", "/", "8", "/", "4", "K", "3", " ", "b", " ", "-", " ", "-", " ", "0", " ",
      "1">>,
    \* 10: two knights reach c3, the knight on e2 is pinned
    \*    4r1k1/8/8/8/8/8/4N3/1N2K3 w - - 0 1
    <<"4", "r", "1", "k", "1", "/", "8", "/", "8", "/", "8", "/", "8", "/", "8", "/",
      "4", "N", "3", "/", "1", "N", "2", "K", "3", " ", "w", " ", "-", " ", "-", " ",
      "0", " ", "1">>,
    \* 11: the pawn move a5 is the only move Black has
    \*    7k/5Q2/p5K1/8/8/8/8/8 b - - 0 1
    <<"7", "k", "/", "5", "Q", "2", "/", "p", "5", "K", "1", "/", "8", "/", "8", "/",
      "8", "/", "8", "/", "8", " ", "b", " ", "-", " ", "-", " ", "0", " ", "1">>,
    \* 12: Chess960 with the king on b1: castling short takes it five files to g1,
    \*     castling long one file to c1; the halfmove counter stands at 100
    \*    4k3/8/8/8/8/8/8/RK5R w KQ - 100 80
    <<"4", "k", "3", "/", "8", "/", "8", "/", "8", "/", "8", "/", "8", "/", "8", "/",
      "R", "K", "5", "R", " ", "w", " ", "K", "Q", " ", "-", " ", "1", "0", "0", " ",
      "8", "0">>
>>

\* how many moves the driver plays from a starting position
MaxPlies == 1

----------------------------------------------------------------------------
(* the driver: it holds one Board, calls one operation at a time on it and
   keeps the result in out until it returns to idle *)

Idle == [op |-> "idle", arg |-> << >>, res |-> << >>]

\* the moves the driver plays: the pseudo-legal moves that pass isLegal
PlayableMoves(bd) ==
    LET legal(moves) == {moves[i] : i \in {k \in 1..Len(moves) : isLegal(moves[k], bd)}}
    IN legal(pseudoLegalMoves(bd).moves)

\* SAN-like text without disambiguation or check mark, for one pseudo-legal move
bareNotation(bd, m) ==
    IF Type(bd.Piece[m.From]) = Pawn \/ isCastling(bd, m) THEN sanBody(m, bd)
    ELSE << PieceLetters(Type(bd.Piece[m.From])) >> \o SqString(m.To)

\* texts tried on every board, from parseMoveTests and the comments of ParseMove
FixedInputs ==
    { <<"N", "b", "4">>, <<"e", "x", "f", "5">>, <<"f", "g">>, <<"b", "c", "3">>,
      <<"0", "-", "0">>, <<"0", "-", "0", "-", "0">>, <<"O", "-", "O">>,
      <<"O", "-", "O", "-", "O">>,
      <<"e", "8", "g", "8">>, <<"e", "1", "g", "1">>, <<"e", "1", "c", "1">>,
      <<"b", "1", "(", "Q", ")", "+", "?">>, <<"N", "c", "6", "-", "d", "4">>,
      <<"e">>, <<"a">>, << >>, <<"b", "4">>, <<"B", "d", "4">> }

\* the king moves along its rank that spell castling on a wing: onto the castling
\* rook, or two files or more towards the wing
kingMoveNotations(bd, wing) ==
    LET texts(cs) ==
            IF cs.rf = NoSquare \/ cs.kf = NoSquare THEN {}
            ELSE {SqString(cs.kf) \o SqString(Square(f, Rank(cs.kf))) :
                    f \in {g \in 0..7 : \/ g = File(cs.rf)
                                        \/ wing = kingSide /\ g >= File(cs.kf) + 2
                                        \/ wing = queenSide /\ g <= File(cs.kf) - 2}}
    IN texts(castleSquares(bd, wing))

\* the texts the driver hands to ParseMove on board bd
Inputs(bd) ==
    LET bare(moves) == {bareNotation(bd, moves[i]) : i \in 1..Len(moves)}
    IN FixedInputs \cup bare(pseudoLegalMoves(bd).moves)
         \cup kingMoveNotations(bd, kingSide) \cup kingMoveNotations(bd, queenSide)

\* no engine has been started
NoEngine ==
    /\ comm = nil
    /\ caller = nil
    /\ engine = nil
    /\ infocs = << >>

Init ==
    /\ \E k \in 1..Len(Fens) : b = ParseFen(Fens[k]).board
    /\ plies = 0
    /\ out = Idle
    /\ parser = newParser(newLexer(<< >>, 1))
    /\ errs = << >>
    /\ Games = << >>
    /\ ret = [op |-> "none", done |-> FALSE]
    /\ NoEngine

\* b = b.MakeMove(m) for a legal move m
Play ==
    /\ out.op = "idle"
    /\ plies < MaxPlies
    /\ \E m \in PlayableMoves(b) :
         /\ b' = MakeMove(b, m)
         /\ plies' = plies + 1
         /\ out' = Idle
    /\ UNCHANGED <<pgnVars, uciVars>>

CallLegalMoves ==
    /\ out.op = "idle"
    /\ out' = [op |-> "LegalMoves", arg |-> << >>, res |-> LegalMoves(b)]
    /\ UNCHANGED <<b, plies, pgnVars, uciVars>>

CallIsCheckOrMate ==
    /\ out.op = "idle"
    /\ out' = [op |-> "IsCheckOrMate", arg |-> << >>, res |-> IsCheckOrMate(b)]
    /\ UNCHANGED <<b, plies, pgnVars, uciVars>>

CallFen ==
    /\ out.op = "idle"
    /\ out' = [op |-> "Fen", arg |-> << >>, res |-> Fen(b)]
    /\ UNCHANGED <<b, plies, pgnVars, uciVars>>

\* ParseFen on the text Fen has just returned
CallParseFen ==
    /\ out.op = "Fen"
    /\ out' = [op |-> "ParseFen", arg |-> out.res, res |-> ParseFen(out.res)]
    /\ UNCHANGED <<b, plies, pgnVars, uciVars>>

CallUci ==
    /\ out.op = "idle"
    /\ \E m \in PlayableMoves(b) :
         out' = [op |-> "Uci", arg |-> m, res |-> Uci(m, b)]
    /\ UNCHANGED <<b, plies, pgnVars, uciVars>>

CallSan ==
    /\ out.op = "idle"
    /\ \E m \in PlayableMoves(b) :
         out' = [op |-> "San", arg |-> m, res |-> San(m, b)]
    /\ UNCHANGED <<b, plies, pgnVars, uciVars>>

\* ParseMove on the text Uci or San has just returned for the move out.arg
CallParseMoveBack ==
    /\ out.op \in {"Uci", "San"}
    /\ out' = [op |-> "ParseMove", arg |-> out.res, res |-> ParseMove(b, out.res),
               via |-> out.op, of |-> out.arg]
    /\ UNCHANGED <<b, plies, pgnVars, uciVars>>

\* ParseMove on a text from the user
CallParseMove ==
    /\ out.op = "idle"
    /\ \E s \in Inputs(b) :
         out' = [op |-> "ParseMove", arg |-> s, res |-> ParseMove(b, s),
                 via |-> "user", of |-> NullMove]
    /\ UNCHANGED <<b, plies, pgnVars, uciVars>>

\* the moves the driver hands to MakeMove without playing them: the null move, every
\* generated move, the king onto each rook of its side, and moves no piece can make
TriedMoves(bd) ==
    LET generated(moves) == {moves[i] : i \in 1..Len(moves)}
        kingOntoRook(kingSq) ==
            IF kingSq = NoSquare THEN {}
            ELSE {Move(kingSq, sq, NoPiece) : sq \in {t \in 0..63 : bd.Piece[t] = my(bd, Rook)}}
    IN {NullMove, Move(A1, H8, NoPiece), Move(H8, A1, White + Queen), Move(D1, D1, NoPiece)}
         \cup generated(pseudoLegalMoves(bd).moves)
         \cup kingOntoRook(find(bd, my(bd, King), A1, H8))

\* b.MakeMove(m) on the value b: the receiver is a copy, the result a new board
CallMakeMove ==
    /\ out.op = "idle"
    /\ \E m \in TriedMoves(b) :
         out' = [op |-> "MakeMove", arg |-> m, res |-> MakeMove(b, m)]
    /\ UNCHANGED <<b, plies, pgnVars, uciVars>>

\* the driver drops the result
Return ==
    /\ out.op \notin {"idle"}
    /\ out' = Idle
    /\ UNCHANGED <<b, plies, pgnVars, uciVars>>

Next ==
    \/ Play
    \/ CallLegalMoves
    \/ CallIsCheckOrMate
    \/ CallFen
    \/ CallParseFen
    \/ CallUci
    \/ CallSan
    \/ CallParseMoveBack
    \/ CallParseMove
    \/ CallMakeMove
    \/ Return

Spec == Init /\ [][Next]_vars

----------------------------------------------------------------------------
(* the PGN texts DB.Parse is called on: the pieces below, up to MaxChunks of them
   in a row *)

Chunks == <<
    \* 1: a broken tag pair, then the tag pair and the movetext of a game
    \*    [bad [Result "*"]\n\n1. e4 *
    <<"[", "b", "a", "d", " ", "[", "R", "e", "s", "u", "l", "t", " ", "\"", "*", "\"",
      "]", "\n", "\n", "1", ".", " ", "e", "4", " ", "*">>,
    \* 2: a game
    \*    [Result "*"]\n\n1. e4 *
    <<"[", "R", "e", "s", "u", "l", "t", " ", "\"", "*", "\"", "]", "\n", "\n", "1", ".",
      " ", "e", "4", " ", "*">>,
    \* 3: a line break
    \*    \n
    <<"\n">>,
    \* 4: a blank line holding a space
    \*    \n \n
    <<"\n", " ", "\n">>,
    \* 5: a game without Result tag and result, its second move illegal
    \*    [White "J"] e4 Ke7
    <<"[", "W", "h", "i", "t", "e", " ", "\"", "J", "\"", "]", " ", "e", "4", " ", "K",
      "e", "7">>,
    \* 6: a result
    \*     1-0
    <<" ", "1", "-", "0">>,
    \* 7: a game with an empty Result tag
    \*    [Result ""] d4
    <<"[", "R", "e", "s", "u", "l", "t", " ", "\"", "\"", "]", " ", "d", "4">>,
    \* 8: a character the lexer rejects
    \*     &
    <<" ", "&">>,
    \* 9: a Result tag pair
    \*    [Result "1-0"]
    <<"[", "R", "e", "s", "u", "l", "t", " ", "\"", "1", "-", "0", "\"", "]">>,
    \* 10: a comment, a move, a NAG and a variation
    \*     {c} e5 $1 (d5)
    <<" ", "{", "c", "}", " ", "e", "5", " ", "$", "1", " ", "(", "d", "5", ")">>
>>

\* how many pieces a text is made of at most
MaxChunks == 3

RECURSIVE concat(_, _)
\* the pieces picks[i..] in a row
concat(picks, i) ==
    IF i > Len(picks) THEN << >> ELSE Chunks[picks[i]] \o concat(picks, i + 1)

PgnTexts ==
    UNION {{concat(picks, 1) : picks \in [1..n -> 1..Len(Chunks)]} : n \in 1..MaxChunks}

----------------------------------------------------------------------------
(* the pgn driver: DB.Parse on one text, one turn of its loop at a time, then
   DB.ParseMoves on the games of the database *)

InitPgn ==
    /\ b = ParseFen(<< >>).board
    /\ plies = 0
    /\ out = Idle
    /\ \E t \in PgnTexts : parser = newParser(newLexer(t, 1))
    /\ errs = << >>
    /\ Games = << >>
    /\ ret = [op |-> "Parse", done |-> FALSE, log |-> << >>, edits |-> 0]
    /\ NoEngine

\* what one readGame call did, for the log of the driver: the text it read runs from
\* offset lo to offset hi; a failed call stood at offset at when it failed and hi is
\* where its recovery left the lexer
logEntry(q, r) ==
    [kind |-> IF r.err # nil THEN "error" ELSE IF r.game # nil THEN "game" ELSE "end",
     lo |-> IF q.item = NoItem THEN q.lex.pos ELSE q.pos,
     hi |-> IF r.err # nil THEN r.p.lex.pos ELSE r.p.pos,
     at |-> r.at]

\* one turn of the loop of DB.Parse: readGame, then the error or the game is appended,
\* or the loop ends
Parse ==
    /\ ret.op = "Parse" /\ ~ret.done
    /\ \E r \in {readGame(parser)} :
         /\ parser' = r.p
         /\ errs' = IF r.err # nil THEN Append(errs, r.err) ELSE errs
         /\ Games' = IF r.err = nil /\ r.game # nil THEN Append(Games, r.game) ELSE Games
         /\ ret' = [op |-> "Parse", done |-> r.err = nil /\ r.game = nil,
                    log |-> Append(ret.log, logEntry(parser, r)), edits |-> 0]
    /\ UNCHANGED <<chessVars, uciVars>>

\* db.ParseMoves(db.Games[i]) once DB.Parse has returned
CallParseMoves ==
    /\ ret.done
    /\ \E i \in 1..Len(Games) : \E r \in {ParseMoves(Games[i])} :
         /\ Games' = [Games EXCEPT ![i] = r.game]
         /\ ret' = [op |-> "ParseMoves", done |-> TRUE, game |-> i, err |-> r.err,
                    before |-> Games[i], edits |-> ret.edits]
    /\ UNCHANGED <<chessVars, uciVars, parser, errs>>

NextPgn ==
    \/ Parse
    \/ CallParseMoves

SpecPgn == InitPgn /\ [][NextPgn]_vars

\* DB.Parse runs its loop: weak fairness of Parse, with its enabling condition written
\* out (a turn of the loop can be taken exactly as long as the loop has not ended)
FairPgn == SpecPgn /\ ([]<>(ret.op # "Parse" \/ ret.done) \/ []<><<Parse>>_vars)

----------------------------------------------------------------------------
(* the movetext driver: DB.Parse and DB.ParseMoves on one game whose movetext is made
   of up to MaxPieces pieces, or whose tag value is made of up to MaxRunes runes *)

\* the beginnings of the texts: a tag section, and a tag section with two moves
\*    [Result "1-0"]
\*    [Result "1-0"] e4 e5
MoveHeads == {Chunks[9], Chunks[9] \o <<" ", "e", "4", " ", "e", "5">>}

MovePieces == <<
    <<" ", "(", "d", "5", ")">>,              \*  (d5)
    <<" ", "(", "N", "f", "6", ")">>,         \*  (Nf6)
    <<" ", "(", "d", "5">>,                   \*  (d5
    <<" ", "(">>,                             \*  (
    <<")">>,                                  \* )
    <<" ", "N", "f", "3">>,                   \*  Nf3
    <<" ", "$", "4", "5">>,                   \*  $45
    <<" ", "$", "3">>                         \*  $3
>>

\* how many pieces the movetext is made of at most
MaxPieces == 3

RECURSIVE pieces(_, _)
\* the pieces picks[i..] in a row
pieces(picks, i) ==
    IF i > Len(picks) THEN << >> ELSE MovePieces[picks[i]] \o pieces(picks, i + 1)

MoveTexts ==
    {h \o pieces(picks, 1) :
        h \in MoveHeads,
        picks \in UNION {[1..n -> 1..Len(MovePieces)] : n \in 0..MaxPieces}}

\* how many runes stand between the quotes of the tag value at most
MaxRunes == 3

\* [Event "..."] with every row of up to MaxRunes runes between the quotes, a rune
\* being a letter, a backslash, a double quote or a space
TagTexts ==
    {<<"[", "E", "v", "e", "n", "t", " ", "\"">> \o runes \o <<"\"", "]">> :
        runes \in UNION {[1..n -> {"a", "\\", "\"", " "}] : n \in 0..MaxRunes}}

InitMoves ==
    /\ b = ParseFen(<< >>).board
    /\ plies = 0
    /\ out = Idle
    /\ \E t \in MoveTexts \cup TagTexts : parser = newParser(newLexer(t, 1))
    /\ errs = << >>
    /\ Games = << >>
    /\ ret = [op |-> "Parse", done |-> FALSE, log |-> << >>, edits |-> 0]
    /\ NoEngine

SpecMoves == InitMoves /\ [][NextPgn]_vars

----------------------------------------------------------------------------
(* the tree driver: DB.Parse on one game, then DB.ParseMoves and the methods of Node
   on the nodes of the game, in any order *)

TreeTexts == {
    \* [Result "1-0"]
    Chunks[9],
    \* [Result "1-0"] e4 $1 $2 $3 e5 (d5)
    Chunks[9] \o <<" ", "e", "4", " ", "$", "1", " ", "$", "2", " ", "$", "3", " ", "e", "5",
                   " ", "(", "d", "5", ")">>,
    \* [White "J"] e4 Ke7
    Chunks[5]
}

\* how many calls of Insert, NewVariation, AddNag and DropNag the driver makes
MaxEdits == 2

\* the moves the driver inserts, in the notation ParseMove reads
InsertSans == {<<"e", "4">>, <<"e", "5">>, <<"N", "f", "3">>}

\* the NAGs the driver adds and drops
NagValues == {1, 3}

InitTree ==
    /\ b = ParseFen(<< >>).board
    /\ plies = 0
    /\ out = Idle
    /\ \E t \in TreeTexts : parser = newParser(newLexer(t, 1))
    /\ errs = << >>
    /\ Games = << >>
    /\ ret = [op |-> "Parse", done |-> FALSE, log |-> << >>, edits |-> 0]
    /\ NoEngine

\* what a call of a method of Node leaves for the claims: the game before the call,
\* the node and the argument
edited(op, i, n, arg) ==
    [op |-> op, done |-> TRUE, game |-> i, node |-> n, arg |-> arg, before |-> Games[i],
     edits |-> ret.edits + 1]

\* n.Insert(move) on a node of a game, for a move ParseMove reads in the position of n
CallInsert ==
    /\ ret.done /\ ret.edits < MaxEdits
    /\ \E i \in 1..Len(Games) : \E n \in 1..Len(Games[i].nodes) : \E s \in InsertSans :
         \E m \in {ParseMove(Games[i].nodes[n].Board, s)} :
            /\ ~m.err
            /\ Games' = [Games EXCEPT ![i].nodes = Insert(@, n, m.move)]
            /\ ret' = edited("Insert", i, n, m.move)
    /\ UNCHANGED <<chessVars, uciVars, parser, errs>>

\* n.NewVariation() on a node that has a parent
CallNewVariation ==
    /\ ret.done /\ ret.edits < MaxEdits
    /\ \E i \in 1..Len(Games) : \E n \in 1..Len(Games[i].nodes) :
         /\ Games[i].nodes[n].Parent # 0
         /\ Games' = [Games EXCEPT ![i].nodes = NewVariation(@, n)]
         /\ ret' = edited("NewVariation", i, n, 0)
    /\ UNCHANGED <<chessVars, uciVars, parser, errs>>

\* n.AddNag(x)
CallAddNag ==
    /\ ret.done /\ ret.edits < MaxEdits
    /\ \E i \in 1..Len(Games) : \E n \in 1..Len(Games[i].nodes) : \E x \in NagValues :
         /\ Games' = [Games EXCEPT ![i].nodes = AddNag(@, n, x)]
         /\ ret' = edited("AddNag", i, n, x)
    /\ UNCHANGED <<chessVars, uciVars, parser, errs>>

\* n.DropNag(x)
CallDropNag ==
    /\ ret.done /\ ret.edits < MaxEdits
    /\ \E i \in 1..Len(Games) : \E n \in 1..Len(Games[i].nodes) : \E x \in NagValues :
         /\ Games' = [Games EXCEPT ![i].nodes = DropNag(@, n, x)]
         /\ ret' = edited("DropNag", i, n, x)
    /\ UNCHANGED <<chessVars, uciVars, parser, errs>>

NextTree ==
    \/ Parse
    \/ CallParseMoves
    \/ CallInsert
    \/ CallNewVariation
    \/ CallAddNag
    \/ CallDropNag

SpecTree == InitTree /\ [][NextTree]_vars

----------------------------------------------------------------------------
(* the lexer driver: collect of the lexer test on one text, one item() call at a time.
   A text is made of up to MaxTokens of the pieces below *)

LexPieces == <<
    <<"1">>, <<"0">>, <<"2">>, <<"-">>, <<"/">>, <<" ">>, <<".">>,
    <<"1", "-", "0">>,                          \* 1-0
    <<"0", "-", "1">>,                          \* 0-1
    <<"1", "/", "2", "-", "1", "/">>,           \* 1/2-1/
    <<"e", "4">>,                               \* e4
    <<"\n">>
>>

\* how many pieces a text of the lexer driver is made of at most
MaxTokens == 3

\* newLexer(t.input, 1) and no items yet
InitLex ==
    LET RECURSIVE row(_, _)
        row(picks, i) == IF i > Len(picks) THEN << >>
                         ELSE LexPieces[picks[i]] \o row(picks, i + 1)
    IN /\ b = ParseFen(<< >>).board
       /\ plies = 0
       /\ out = Idle
       /\ \E n \in 1..MaxTokens : \E picks \in [1..n -> 1..Len(LexPieces)] :
              parser = newParser(newLexer(row(picks, 1), 1))
       /\ errs = << >>
       /\ Games = << >>
       /\ ret = [op |-> "collect", done |-> FALSE, items |-> << >>]
       /\ NoEngine

\* one turn of the loop of collect: the item of l.item() is appended, and the loop
\* ends with the EOF item; a panic of the lexer ends it with an item of type none that
\* holds the message
collect ==
    /\ ret.op = "collect" /\ ~ret.done
    /\ \E r \in {lexer_item(parser.lex)} :
         /\ parser' = [parser EXCEPT !.lex = r.lex]
         /\ ret' = IF r.panic.kind # "none"
                   THEN [op |-> "collect", done |-> TRUE,
                         items |-> Append(ret.items,
                                          [typ |-> "itemNone",
                                           val |-> [fmt |-> r.panic.fmt, args |-> r.panic.args]])]
                   ELSE [op |-> "collect", done |-> r.lex.emitted.typ = "itemEOF",
                         items |-> Append(ret.items, r.lex.emitted)]
    /\ UNCHANGED <<chessVars, uciVars, errs, Games>>

SpecLex == InitLex /\ [][collect]_vars

----------------------------------------------------------------------------
(* uci: the communicator goroutine comm.run, the methods of Engine that talk to it
   over cmdc and errc, the lines of the engine and the Info channels of the searches.
   The unbuffered channels cmdc, errc, linec and optc are rendezvous: one step moves
   the sender and the receiver together. An Info channel has room for one Info. *)

\* how many methods of the Engine the caller calls after initialise
MaxCalls == 3

\* how many lines the engine writes at most
MaxLines == 4

\* engine.ErrTimeout
ErrTimeout == [msg |-> "engine timeout"]

\* Info{line: line, err: err}; a receive from a closed and empty channel gives the
\* zero Info with ok false
Info(line, err) == [line |-> line, err |-> err, ok |-> TRUE]

\* c.close(err): the process is closed and the search that is running gets the error
\* as an Info, after which its channel is closed; pend is the Info run is about to
\* send on c.infoc and last says that the channel is closed after it
comm_close(c, err) ==
    [c EXCEPT !.err = err,
              !.process = "closed",
              !.pend = IF c.infoc # 0 THEN <<Info(<< >>, err)>> ELSE << >>,
              !.last = c.infoc # 0]

\* run, case in := <-c.cmdc: werr is what timeoutWrite returns; errc holds the value
\* run is about to send on c.errc
run_cmd(c, v, werr) ==
    IF c.err # nil THEN [c EXCEPT !.errc = <<c.err>>]
    ELSE IF v.typ = "string"
    THEN (IF werr # nil
          THEN [comm_close(c, werr) EXCEPT !.errc = <<werr>>]
          ELSE IF v.val \in {"uci", "isready", "quit"}
          THEN [c EXCEPT !.timeout = TRUE]
          ELSE [c EXCEPT !.errc = <<nil>>])
    ELSE IF v.typ = "board"
    THEN [c EXCEPT !.board = TRUE, !.errc = <<nil>>]
    ELSE IF v.typ = "infoc"
    THEN (IF ~c.board
          THEN [c EXCEPT !.err = [msg |-> "SetPosition not called before search"],
                         !.errc = <<[msg |-> "SetPosition not called before search"]>>]
          ELSE [c EXCEPT !.infoc = v.val, !.errc = <<nil>>])
    ELSE [c EXCEPT !.errc = <<nil>>, !.optc = TRUE]

\* a bestmove line is handled like an info line: the channel stays open
run_line_KeepsOpen(c, line) ==
    IF line[1] = "uciok"
    THEN (IF ~c.initialised /\ c.timeout
          THEN [c EXCEPT !.errc = <<nil>>, !.initialised = TRUE, !.timeout = FALSE]
          ELSE c)
    ELSE IF line[1] = "readyok"
    THEN (IF c.initialised /\ c.timeout
          THEN [c EXCEPT !.errc = <<nil>>, !.timeout = FALSE]
          ELSE c)
    ELSE IF line[1] \in {"info", "bestmove"}
    THEN (IF c.infoc # 0 THEN [c EXCEPT !.pend = <<Info(line, nil)>>, !.last = FALSE] ELSE c)
    ELSE c

\* run, case line := <-c.linec with a line: id and option lines change nothing the
\* searches see
run_line(c, line) ==
    IF line[1] = "uciok"
    THEN (IF ~c.initialised /\ c.timeout
          THEN [c EXCEPT !.errc = <<nil>>, !.initialised = TRUE, !.timeout = FALSE]
          ELSE c)
    ELSE IF line[1] = "readyok"
    THEN (IF c.initialised /\ c.timeout
          THEN [c EXCEPT !.errc = <<nil>>, !.timeout = FALSE]
          ELSE c)
    ELSE IF line[1] = "info"
    THEN (IF c.infoc # 0 THEN [c EXCEPT !.pend = <<Info(line, nil)>>, !.last = FALSE] ELSE c)
    ELSE IF line[1] = "bestmove"
    THEN (IF c.infoc # 0 THEN [c EXCEPT !.pend = <<Info(line, nil)>>, !.last = TRUE] ELSE c)
    ELSE c

\* the caller after err := <-e.errc, the answer to the head of its prog: initialise
\* gives no Engine on an error, search gives up when the communicator refuses its
\* channel, Options waits for the map, Quit closes cmdc after its Send
returned(cl, err) ==
    LET v == Head(cl.prog)
        to(pc, prog) == [cl EXCEPT !.pc = pc, !.prog = prog, !.err = err]
    IN IF cl.op = "initialise" THEN to(IF err # nil THEN "failed" ELSE "idle", << >>)
       ELSE IF v.typ = "infoc" /\ err # nil THEN to("idle", << >>)
       ELSE IF v.typ = "optc" THEN to(IF err # nil THEN "idle" ELSE "optc", << >>)
       ELSE IF Tail(cl.prog) # << >> THEN to("send", Tail(cl.prog))
       ELSE to(IF cl.op = "Quit" THEN "closed" ELSE "idle", << >>)

\* the state initialise leaves when it calls e.Send("uci"): run stands at its select,
\* readLines reads the output of the engine
InitEngine ==
    /\ b = ParseFen(<< >>).board
    /\ plies = 0
    /\ out = Idle
    /\ parser = newParser(newLexer(<< >>, 1))
    /\ errs = << >>
    /\ Games = << >>
    /\ ret = [op |-> "none", done |-> FALSE]
    /\ comm = [pc |-> "select", err |-> nil, infoc |-> 0, board |-> FALSE,
               process |-> "running", linec |-> TRUE, timeout |-> FALSE,
               initialised |-> FALSE, pend |-> << >>, last |-> FALSE,
               errc |-> << >>, optc |-> FALSE]
    /\ caller = [pc |-> "send", op |-> "initialise",
                 prog |-> <<[typ |-> "string", val |-> "uci"]>>, calls |-> 0, err |-> nil]
    /\ engine = [lines |-> 0, stdin |-> << >>]
    /\ infocs = << >>

\* the caller calls a method of the Engine: prog is what the method sends on cmdc,
\* each followed by a receive from errc; search makes the Info channel first
Call ==
    /\ caller.pc = "idle"
    /\ caller.calls < MaxCalls
    /\ \E op \in {"Stop", "Ping", "Quit", "SetPosition", "Search", "Options"} :
         LET str(x) == [typ |-> "string", val |-> x]
             prog == IF op = "Stop" THEN <<str("stop")>>
                     ELSE IF op = "Ping" THEN <<str("isready")>>
                     ELSE IF op = "Quit" THEN <<str("quit")>>
                     ELSE IF op = "SetPosition"
                     THEN <<str("ucinewgame"), str("position"), [typ |-> "board", val |-> 0]>>
                     ELSE IF op = "Search"
                     THEN <<str("isready"), [typ |-> "infoc", val |-> Len(infocs) + 1],
                            str("go")>>
                     ELSE <<[typ |-> "optc", val |-> 0]>>
         IN /\ caller' = [caller EXCEPT !.pc = "send", !.op = op, !.prog = prog,
                                        !.calls = caller.calls + 1]
            /\ infocs' = IF op = "Search"
                         THEN Append(infocs, [buf |-> << >>, sent |-> << >>,
                                              closed |-> FALSE, got |-> << >>])
                         ELSE infocs
    /\ UNCHANGED <<chessVars, pgnVars, comm, engine>>

\* c.run: one turn of its select, or one of the sends a turn is made of
run ==
    LET goon(c) == [c EXCEPT !.pc = IF c.pend # << >> THEN "send"
                                    ELSE IF c.errc # << >> THEN "reply"
                                    ELSE "select"]
    IN
    /\ \/ \* case in := <-c.cmdc, the caller stands at e.cmdc <- in
          /\ comm.pc = "select" /\ caller.pc = "send"
          /\ \E werr \in {nil, ErrTimeout} : \E in \in {Head(caller.prog)} :
               LET writes == comm.err = nil /\ in.typ = "string"
               IN /\ werr # nil => writes
                  /\ comm' = goon(run_cmd(comm, in, werr))
                  /\ engine' = IF writes /\ werr = nil
                               THEN [engine EXCEPT !.stdin = Append(@, in.val)]
                               ELSE engine
          /\ caller' = [caller EXCEPT !.pc = "recv"]
          /\ UNCHANGED infocs
       \/ \* case in, ok := <-c.cmdc with cmdc closed by Quit
          /\ comm.pc = "select" /\ caller.pc = "closed"
          /\ comm' = [comm EXCEPT !.pc = "done"]
          /\ UNCHANGED <<caller, engine, infocs>>
       \/ \* case line := <-c.linec, readLines has read a line of the engine
          /\ comm.pc = "select" /\ comm.linec
          /\ engine.lines < MaxLines
          /\ \E kind \in {"id", "uciok", "readyok", "info", "bestmove"} :
               comm' = goon(run_line(comm, <<kind, engine.lines + 1>>))
          /\ engine' = [engine EXCEPT !.lines = @ + 1]
          /\ UNCHANGED <<caller, infocs>>
       \/ \* case line, ok := <-c.linec with linec closed by readLines
          /\ comm.pc = "select" /\ comm.linec
          /\ LET c1 == IF comm.err = nil THEN comm_close(comm, [msg |-> "EOF"]) ELSE comm
             IN comm' = goon([c1 EXCEPT !.linec = FALSE, !.timeout = FALSE,
                                        !.errc = IF comm.timeout THEN <<c1.err>> ELSE << >>])
          /\ UNCHANGED <<caller, engine, infocs>>
       \/ \* case <-timeout
          /\ comm.pc = "select" /\ comm.timeout
          /\ comm' = goon([comm_close(comm, ErrTimeout) EXCEPT !.timeout = FALSE,
                                                               !.errc = <<ErrTimeout>>])
          /\ UNCHANGED <<caller, engine, infocs>>
       \/ \* c.infoc <- Info{...}: blocks while the channel is full, panics when closed
          /\ comm.pc = "send"
          /\ infocs[comm.infoc].closed \/ infocs[comm.infoc].buf = << >>
          /\ IF infocs[comm.infoc].closed
             THEN comm' = [comm EXCEPT !.pc = "panic"] /\ UNCHANGED infocs
             ELSE /\ infocs' = [infocs EXCEPT ![comm.infoc].buf = comm.pend,
                                              ![comm.infoc].sent = @ \o comm.pend]
                  /\ comm' = IF comm.last THEN [comm EXCEPT !.pc = "close", !.pend = << >>]
                             ELSE goon([comm EXCEPT !.pend = << >>])
          /\ UNCHANGED <<caller, engine>>
       \/ \* close(c.infoc); c.infoc = nil
          /\ comm.pc = "close"
          /\ IF infocs[comm.infoc].closed
             THEN comm' = [comm EXCEPT !.pc = "panic"] /\ UNCHANGED infocs
             ELSE /\ infocs' = [infocs EXCEPT ![comm.infoc].closed = TRUE]
                  /\ comm' = goon([comm EXCEPT !.infoc = 0, !.last = FALSE])
          /\ UNCHANGED <<caller, engine>>
       \/ \* errc <- c.err, the caller stands at <-e.errc; a search that is refused
          \* sends the error on its channel and closes it
          /\ comm.pc = "reply" /\ caller.pc = "recv"
          /\ caller' = returned(caller, comm.errc[1])
          /\ comm' = [comm EXCEPT !.errc = << >>,
                                  !.pc = IF comm.optc THEN "options" ELSE "select"]
          /\ infocs' = IF Head(caller.prog).typ = "infoc" /\ comm.errc[1] # nil
                       THEN [infocs EXCEPT ![Head(caller.prog).val] =
                                [buf |-> <<Info(<< >>, comm.errc[1])>>,
                                 sent |-> <<Info(<< >>, comm.errc[1])>>,
                                 closed |-> TRUE, got |-> << >>]]
                       ELSE infocs
          /\ UNCHANGED engine
       \/ \* v <- c.options, the caller stands at <-optc
          /\ comm.pc = "options" /\ caller.pc = "optc"
          /\ comm' = [comm EXCEPT !.pc = "select", !.optc = FALSE]
          /\ caller' = [caller EXCEPT !.pc = "idle"]
          /\ UNCHANGED <<engine, infocs>>
    /\ UNCHANGED <<chessVars, pgnVars>>

\* the loop that ranges over the channel of a search: one receive, which gives the
\* Info in the channel, or the zero Info once the channel is closed and empty
Receive ==
    /\ \E k \in DOMAIN infocs :
         \/ /\ infocs[k].buf # << >>
            /\ infocs' = [infocs EXCEPT ![k].buf = << >>,
                                        ![k].got = Append(@, infocs[k].buf[1])]
         \/ /\ infocs[k].buf = << >> /\ infocs[k].closed
            /\ infocs[k].got = << >> \/ infocs[k].got[Len(infocs[k].got)].ok
            /\ infocs' = [infocs EXCEPT ![k].got =
                             Append(@, [line |-> << >>, err |-> nil, ok |-> FALSE])]
    /\ UNCHANGED <<chessVars, pgnVars, comm, caller, engine>>

NextEngine ==
    \/ Call
    \/ run
    \/ Receive

SpecEngine == InitEngine /\ [][NextEngine]_vars

\* the scheduler runs the communicator whenever it can take a step, and the loop over
\* a search's channel keeps receiving
FairEngine == SpecEngine /\ WF_vars(run) /\ WF_vars(Receive)

\* the scheduler runs the communicator whenever it can take a step; nothing makes the
\* program receive from the channel of a search
FairRun == SpecEngine /\ WF_vars(run)

----------------------------------------------------------------------------
(* the rules of chess the claims refer to, stated without the generator *)

Abs(x) == IF x < 0 THEN -x ELSE x
Sign(x) == IF x < 0 THEN -1 ELSE IF x > 0 THEN 1 ELSE 0

\* the squares strictly between two squares of one rank, file or diagonal
Between(a, c) ==
    LET df == File(c) - File(a)
        dr == Rank(c) - Rank(a)
        n == IF Abs(df) > Abs(dr) THEN Abs(df) ELSE Abs(dr)
    IN {Square(File(a) + k * Sign(df), Rank(a) + k * Sign(dr)) : k \in 1..(n - 1)}

\* the piece on square from attacks square to, under the movement rules
Attacks(bd, from, to) ==
    LET p == bd.Piece[from]
        df == File(to) - File(from)
        dr == Rank(to) - Rank(from)
        clear == \A sq \in Between(from, to) : bd.Piece[sq] = NoPiece
        straight == (df = 0) # (dr = 0)
        diagonal == Abs(df) = Abs(dr) /\ df # 0
    IN /\ p # NoPiece
       /\ from # to
       /\ CASE Type(p) = Pawn -> Abs(df) = 1 /\ dr = (IF Color(p) = White THEN 1 ELSE -1)
            [] Type(p) = Knight -> {Abs(df), Abs(dr)} = {1, 2}
            [] Type(p) = Bishop -> diagonal /\ clear
            [] Type(p) = Rook -> straight /\ clear
            [] Type(p) = Queen -> (straight \/ diagonal) /\ clear
            [] Type(p) = King -> Abs(df) <= 1 /\ Abs(dr) <= 1
            [] OTHER -> FALSE

\* some piece of the given colour attacks the square
Attacked(bd, sq, color) ==
    \E from \in 0..63 :
        bd.Piece[from] # NoPiece /\ Color(bd.Piece[from]) = color /\ Attacks(bd, from, sq)

kingSquare(bd, color) == find(bd, color + King, A1, H8)

\* the moves of the list that pass isLegal, each once and in the order of the list
legalFilter(bd, moves) == SelectSeq(moves, LAMBDA m : isLegal(m, bd))

\* the squares the king touches in castling, from its source to its destination
kingPath(bd, m) ==
    LET cs == castleSquares(bd, castleWing(m))
    IN MinOf({cs.kf, cs.kt})..MaxOf({cs.kf, cs.kt})

\* a generated move that is legal under the rules: it leaves the mover's king
\* unattacked and, in castling, no square of the king's path attacked
ruleLegal(bd, m) ==
    LET after == MakeMove(bd, m)
        me == bd.SideToMove
    IN /\ ~Attacked(after, kingSquare(after, me), 1 - me)
       /\ isCastling(bd, m) => \A sq \in kingPath(bd, m) : ~Attacked(after, sq, 1 - me)

RuleLegalMoves(bd) ==
    LET legal(moves) == {moves[i] : i \in {k \in 1..Len(moves) : ruleLegal(bd, moves[k])}}
    IN legal(pseudoLegalMoves(bd).moves)

----------------------------------------------------------------------------
(* the claims *)

\* C1: Board.LegalMoves returns exactly the moves generated by pseudoLegalMoves for
\* which isLegal holds, each once and in generation order, also when an illegal
\* pseudo-legal move is generated before a legal one.
C1_LegalMovesIsTheLegalFilter ==
    out.op = "LegalMoves" => out.res = legalFilter(b, pseudoLegalMoves(b).moves)

\* C2: for every move m of b.LegalMoves(), pseudoLegalMoves on b.MakeMove(m) returns
\* the illegality flag false.
C2_LegalMovesLeaveNoIllegalPosition ==
    out.op = "LegalMoves" =>
        \A i \in 1..Len(out.res) : ~pseudoLegalMoves(MakeMove(b, out.res[i])).check

\* C3: a castling move is never accepted as legal (here: returned by ParseMove) when a
\* square from the king's source to its destination, inclusive, is attacked by an
\* opposing piece, a pawn attacking an empty square diagonally included.
C3_NoCastlingOverAttackedSquare ==
    (out.op = "ParseMove" /\ ~out.res.err /\ isCastling(b, out.res.move)) =>
        LET after == MakeMove(b, out.res.move)
        IN \A sq \in kingPath(b, out.res.move) : ~Attacked(after, sq, after.SideToMove)

\* C4: the mate flag of IsCheckOrMate is true if and only if LegalMoves is empty.
C4_MateIffNoLegalMove ==
    out.op = "IsCheckOrMate" => (out.res.mate <=> LegalMoves(b) = << >>)

\* C4 witness: stalemate, the mate flag without the check flag
C4_Witness ==
    out.op = "IsCheckOrMate" /\ out.res.mate /\ ~out.res.check /\ LegalMoves(b) = << >>

\* C5: the check flag of IsCheckOrMate is true if and only if the king of the side to
\* move stands on a square an opposing piece attacks under the movement rules; the
\* en-passant square and the castle range of the board play no part.
C5_CheckIffKingAttacked ==
    out.op = "IsCheckOrMate" =>
        (out.res.check <=>
            Attacked(b, kingSquare(b, b.SideToMove), 1 - b.SideToMove))

\* C5 witness: check given by the rook of a castling move, the castle range still set
C5_Witness ==
    out.op = "IsCheckOrMate" /\ out.res.check /\ b.checkFrom # b.checkTo

\* the board ParseFen returns for the text of Fen(b), but for its castle range
sameButCastleRange(bd) == [bd EXCEPT !.checkFrom = A1, !.checkTo = A1]

\* C6 as stated: ParseFen(b.Fen()) succeeds and returns a board equal to b in every
\* field, the castle check range included, also right after a castling move.
C6_FenRoundTripEveryField ==
    out.op = "ParseFen" => (~out.res.err /\ out.res.board = b)

\* C6 amended: ParseFen(b.Fen()) succeeds and returns b with the castle check range
\* set to [A1, A1]: equal to b in piece placement, side to move, counters, en-passant
\* square and castling rook squares, and in every field exactly when the castle check
\* range of b is [A1, A1], that is when b does not come from a castling move.
C6_FenRoundTripButCastleRange ==
    out.op = "ParseFen" =>
        /\ ~out.res.err
        /\ out.res.board = sameButCastleRange(b)
        /\ (out.res.board = b <=> (b.checkFrom = A1 /\ b.checkTo = A1))

\* C6 witness: the round trip of a board right after castling with a rook that does
\* not stand on the a- or h-file
C6_Witness ==
    /\ out.op = "ParseFen" /\ ~out.res.err
    /\ b.checkFrom # b.checkTo
    /\ \E i \in 0..3 : b.CastleSq[i] # NoSquare /\ File(b.CastleSq[i]) \notin {FileA, FileH}

\* C7: for every legal move m on b, ParseMove(m.Uci(b)) returns m with no error,
\* castling (king square to rook square), en passant and the four promotions included.
C7_UciRoundTrip ==
    (out.op = "ParseMove" /\ out.via = "Uci") =>
        (~out.res.err /\ out.res.move = out.of)

\* C7 witness: the round trip of a promotion to a bishop
C7_Witness ==
    /\ out.op = "ParseMove" /\ out.via = "Uci"
    /\ out.of.Promotion # NoPiece /\ Type(out.of.Promotion) = Bishop
    /\ out.res.move = out.of

\* C8: for every legal move m on b, ParseMove(m.San(b)) returns m with no error, also
\* for moves of the b-file, of bishops, and with file or rank disambiguation.
C8_SanRoundTrip ==
    (out.op = "ParseMove" /\ out.via = "San") =>
        (~out.res.err /\ out.res.move = out.of)

\* C8 witness: the round trip of a bishop move disambiguated by the b-file
C8_Witness ==
    /\ out.op = "ParseMove" /\ out.via = "San"
    /\ Len(out.arg) >= 4 /\ out.arg[1] = "B" /\ out.arg[2] = "b"
    /\ out.res.move = out.of

\* the SAN text without capture and check marks
sanCore(s) == SelectSeq(s, LAMBDA ch : ch \notin {"x", "+", "#"})

\* the text of a piece move carries the file, the rank of the source square
sanHasFile(s) == Len(sanCore(s)) >= 4 /\ isFileChar(sanCore(s)[2])
sanHasRank(s) ==
    \/ Len(sanCore(s)) = 4 /\ isRankChar(sanCore(s)[2])
    \/ Len(sanCore(s)) = 5 /\ isRankChar(sanCore(s)[3])

\* the other legal moves of a piece of the same type and colour to the same square
rivals(bd, m) ==
    {n \in RuleLegalMoves(bd) :
        n.To = m.To /\ n.From # m.From /\ bd.Piece[n.From] = bd.Piece[m.From]}

\* C9: the SAN of a legal knight, bishop, rook or queen move carries a from-file or
\* from-rank character if and only if another legal move of a piece of the same type
\* and colour reaches the same square, and the from-rank exactly when such a piece
\* stands on the file of the moving piece.
C9_DisambiguationIffRival ==
    (out.op = "San" /\ Type(b.Piece[out.arg.From]) \in {Knight, Bishop, Rook, Queen}) =>
        /\ (sanHasFile(out.res) \/ sanHasRank(out.res)) <=> rivals(b, out.arg) # {}
        /\ sanHasRank(out.res) <=>
               \E n \in rivals(b, out.arg) : File(n.From) = File(out.arg.From)

\* C9 witness: a knight move written with the from-rank, the other knight on its file
C9_Witness ==
    /\ out.op = "San" /\ Type(b.Piece[out.arg.From]) = Knight
    /\ sanHasRank(out.res) /\ ~sanHasFile(out.res)
    /\ \E n \in rivals(b, out.arg) : File(n.From) = File(out.arg.From)

\* what a text specifies: the piece type, files, ranks and promotion ParseMove reads
\* from it (a text without piece letter and source square means a pawn)
specified(bd, s) ==
    IF s = << >>
    THEN [err |-> FALSE, piece |-> Pawn, f0 |-> -1, r0 |-> -1, f1 |-> -1, r1 |-> -1,
          promotion |-> NoPiece]
    ELSE parseComponents(bd, s)

\* the legal moves that match everything the text specifies
matching(bd, s) ==
    IF specified(bd, s).err THEN {}
    ELSE {m \in RuleLegalMoves(bd) : matches(bd, specified(bd, s), m)}

\* C10 as stated: for every text but "--", ParseMove returns a move without error if
\* and only if exactly one legal move matches all the text specifies; otherwise it
\* returns an error with NullMove; a move returned without error is a legal move.
C10_ParseMoveIffOneLegalMatch ==
    (out.op = "ParseMove" /\ out.via = "user" /\ out.arg # <<"-", "-">>) =>
        /\ ~out.res.err <=> Cardinality(matching(b, out.arg)) = 1
        /\ out.res.err => out.res.move = NullMove
        /\ ~out.res.err => out.res.move \in matching(b, out.arg)

\* the castling move of a wing as the generator writes it: king square to rook square
castleMove(bd, wing) ==
    Move(castleSquares(bd, wing).kf, castleSquares(bd, wing).rf, NoPiece)

\* castling on the wing is legal: it is generated and passes isLegal or the rules
castlingLegal(bd, wing) ==
    /\ castleSquares(bd, wing).rf # NoSquare
    /\ canCastle(bd, wing)
    /\ (isLegal(castleMove(bd, wing), bd) \/ ruleLegal(bd, castleMove(bd, wing)))

castleWords(wing) ==
    IF wing = kingSide THEN {<<"O", "-", "O">>, <<"0", "-", "0">>}
    ELSE {<<"O", "-", "O", "-", "O">>, <<"0", "-", "0", "-", "0">>}

\* the king moves of kingMoveNotations that end on the castling rook or exactly two
\* files from the king
twoFileNotations(bd, wing) ==
    LET cs == castleSquares(bd, wing)
    IN {t \in kingMoveNotations(bd, wing) :
          \/ t = SqString(cs.kf) \o SqString(cs.rf)
          \/ Abs(File(squareFromString(SubSeq(t, 3, 4))) - File(cs.kf)) = 2}

\* C11 as stated: when castling on a wing is legal, ParseMove resolves every castling
\* notation for that wing (O-O / 0-0, O-O-O / 0-0-0, king onto own rook, king moving
\* two or more files towards the wing) to Move{From: king square, To: rook square}.
C11_EveryCastlingNotation ==
    (out.op = "ParseMove" /\ out.via = "user") =>
        \A wing \in {kingSide, queenSide} :
            (castlingLegal(b, wing)
               /\ out.arg \in castleWords(wing) \cup kingMoveNotations(b, wing))
            => (~out.res.err /\ out.res.move = castleMove(b, wing))

\* C11 amended: when castling on a wing is legal, ParseMove resolves O-O / 0-0,
\* O-O-O / 0-0-0, the king moving onto its castling rook and the king moving exactly
\* two files towards the wing to Move{From: king square, To: rook square}; a king move
\* of three files or more that does not end on the castling rook is not read as
\* castling and is rejected.
C11_CastlingNotationTwoFiles ==
    (out.op = "ParseMove" /\ out.via = "user") =>
        \A wing \in {kingSide, queenSide} :
            castlingLegal(b, wing) =>
                /\ out.arg \in castleWords(wing) \cup twoFileNotations(b, wing)
                     => (~out.res.err /\ out.res.move = castleMove(b, wing))
                /\ out.arg \in kingMoveNotations(b, wing) \ twoFileNotations(b, wing)
                     => out.res.err

\* a Chess960 king two files along its rank, short of its castling square and not onto
\* the rook, read as castling
C11_Witness ==
    /\ out.op = "ParseMove" /\ out.via = "user"
    /\ castlingLegal(b, kingSide)
    /\ out.arg \in twoFileNotations(b, kingSide)
    /\ squareFromString(SubSeq(out.arg, 3, 4))
         \notin {castleSquares(b, kingSide).rf, castleSquares(b, kingSide).kt}
    /\ ~out.res.err /\ out.res.move = castleMove(b, kingSide)

\* C12: b.MakeMove(NullMove) flips the side to move, adds one to MoveNr exactly when
\* Black was to move, sets EpSquare to NoSquare and keeps the piece placement, the
\* castling rook squares and Rule50 of b.
C12_NullMoveFrame ==
    (out.op = "MakeMove" /\ out.arg = NullMove) =>
        /\ out.res.SideToMove = 1 - b.SideToMove
        /\ out.res.MoveNr = (IF b.SideToMove = Black THEN b.MoveNr + 1 ELSE b.MoveNr)
        /\ out.res.EpSquare = NoSquare
        /\ out.res.Piece = b.Piece
        /\ out.res.CastleSq = b.CastleSq
        /\ out.res.Rule50 = b.Rule50

\* a null move for Black on a board with an en-passant square and castling rights
C12_Witness ==
    /\ out.op = "MakeMove" /\ out.arg = NullMove
    /\ b.SideToMove = Black /\ b.EpSquare # NoSquare
    /\ \E i \in 0..3 : b.CastleSq[i] # NoSquare
    /\ out.res.MoveNr = b.MoveNr + 1

\* C13 as stated: for every move with From and To in 0..63, generated or not, the king
\* onto an own rook without castling right included, b.MakeMove(m) returns a board
\* without a run-time failure (b itself is a copy and stays as it was).
C13_MakeMoveTotal ==
    out.op = "MakeMove" => "panic" \notin DOMAIN out.res

\* C14 as stated: Rule50 stays within 0..100 in every board reached by legal moves
\* from a ParseFen board with Rule50 in 0..100.
C14_Rule50AtMost100 ==
    b.Rule50 \in 0..100

----------------------------------------------------------------------------
(* the claims on DB.Parse and DB.ParseMoves *)

\* the text DB.Parse was called on
parsedText == parser.lex.input

\* the entries of the log for failed reads and for games, each in the order of the calls
errorLog == SelectSeq(ret.log, LAMBDA e : e.kind = "error")
gameLog == SelectSeq(ret.log, LAMBDA e : e.kind = "game")

\* C15 as stated: DB.Parse on `[bad [Result "*"]`, a blank line and `1. e4 *` returns
\* exactly one error, on line 1, and leaves exactly one game in DB.Games.
C15_OneErrorOneGame ==
    (ret.op = "Parse" /\ ret.done /\ parsedText = Chunks[1]) =>
        /\ Len(errs) = 1
        /\ errs[1].Line = 1
        /\ Len(Games) = 1

\* C15 amended: DB.Parse on that text returns two errors, `expected <string>, got '['`
\* at 1:5 and `no game tags found` at 3:1 for the movetext left without tags, and leaves
\* no game in DB.Games.
C15_TwoErrorsNoGame ==
    (ret.op = "Parse" /\ ret.done /\ parsedText = Chunks[1]) =>
        /\ Len(errs) = 2
        /\ errs[1] = [Line |-> 1, Col |-> 5,
                      Message |-> [fmt |-> "expected %s, got %s", args |-> <<"<string>", "'['">>]]
        /\ errs[2] = [Line |-> 3, Col |-> 1,
                      Message |-> [fmt |-> "no game tags found", args |-> << >>]]
        /\ Games = << >>

C15_Witness ==
    /\ ret.op = "Parse" /\ ret.done /\ parsedText = Chunks[1]
    /\ Len(errs) = 2 /\ parser.lex.pos = Len(parsedText)

\* the offset just after the first blank line after offset at: a newline, spaces, tabs
\* and carriage returns, and another newline; the end of the text when there is none
afterBlankLine(text, at) ==
    LET ends == {m \in (at + 2)..Len(text) :
                   /\ text[m] = "\n"
                   /\ \E k \in (at + 1)..(m - 1) :
                        /\ text[k] = "\n"
                        /\ \A j \in (k + 1)..(m - 1) : text[j] \in {" ", "\t", "\r"}}
    IN IF ends = {} THEN Len(text) ELSE MinOf(ends)

\* a well-formed game begins at offset o: the game of Chunks[2], not joined to a tag
\* section before it, and followed by nothing but white space up to the next tag
\* section or the end of the text
wellFormedGameAt(text, o) ==
    /\ o + Len(Chunks[2]) <= Len(text)
    /\ SubSeq(text, o + 1, o + Len(Chunks[2])) = Chunks[2]
    /\ LET before == {k \in 1..o : text[k] \notin {" ", "\t", "\r", "\n"}}
       IN before = {} \/ text[MaxOf(before)] # "]"
    /\ LET rest == {k \in (o + Len(Chunks[2]) + 1)..Len(text) :
                      text[k] \notin {" ", "\t", "\r", "\n"}}
       IN rest = {} \/ text[MinOf(rest)] = "["

\* the game that begins at offset o has been appended to DB.Games
parsedAt(o) ==
    \E i \in 1..Len(gameLog) :
        /\ gameLog[i].lo <= o /\ o < gameLog[i].hi
        /\ \A k \in (gameLog[i].lo + 1)..o : parsedText[k] \in {" ", "\t", "\r", "\n"}
        /\ i <= Len(Games)
        /\ Games[i].Tags = (ResultTag :> <<"*">>)
        /\ Games[i].plies = 1

\* what C16 says of errors, of the skip and of the order
errorsSkipInOrder ==
    /\ Len(errs) = Len(errorLog)
    /\ Len(Games) = Len(gameLog)
    /\ \A i \in 1..Len(errorLog) : errorLog[i].hi = afterBlankLine(parsedText, errorLog[i].at)
    /\ \A i \in 1..(Len(ret.log) - 1) : ret.log[i].hi = ret.log[i + 1].lo
    /\ \A i \in 1..(Len(errs) - 1) :
         \/ errs[i].Line < errs[i + 1].Line
         \/ errs[i].Line = errs[i + 1].Line /\ errs[i].Col <= errs[i + 1].Col

\* C16 as stated: when reading a game fails the error is appended and the lexer skips
\* to just after the next blank line; every well-formed game that begins after that
\* point is parsed and appended; errors and games each appear in input order.
C16_EveryGameAfterRecovery ==
    (ret.op = "Parse" /\ ret.done) =>
        /\ errorsSkipInOrder
        /\ \A i \in 1..Len(errorLog) : \A o \in errorLog[i].hi..Len(parsedText) :
             wellFormedGameAt(parsedText, o) => parsedAt(o)

\* C16 amended: when reading a game fails the error is appended and the lexer skips
\* from where it stood to just after the next blank line or to the end of the input;
\* reading resumes there, so a well-formed game is parsed and appended exactly when it
\* does not begin inside the text of a failed read (from where that read began to where
\* its skip ended); errors and games each appear in input order.
C16_GamesOutsideFailedReads ==
    (ret.op = "Parse" /\ ret.done) =>
        /\ errorsSkipInOrder
        /\ \A o \in 0..Len(parsedText) :
             wellFormedGameAt(parsedText, o) =>
                (parsedAt(o) <=> ~\E i \in 1..Len(errorLog) :
                                    errorLog[i].lo <= o /\ o < errorLog[i].hi)

\* a game parsed after failed reads, and a game lost in the skip of the second of them
C16_Witness ==
    /\ ret.op = "Parse" /\ ret.done
    /\ Len(errs) >= 2 /\ Len(Games) >= 1
    /\ \E o \in errorLog[1].hi..Len(parsedText) :
         wellFormedGameAt(parsedText, o) /\ ~parsedAt(o)

RECURSIVE itemsOf(_)
\* the items the lexer l gives up to the end of its input or to its first panic
itemsOf(l) ==
    LET got(r) == IF r.panic.kind # "none" \/ r.lex.emitted.typ = "itemEOF" THEN << >>
                  ELSE <<r.lex.emitted>> \o itemsOf(r.lex)
    IN got(lexer_item(l))

\* the items of the text the i-th successful read covered, comments left out
gameItems(i) ==
    SelectSeq(itemsOf(newLexer(SubSeq(parsedText, gameLog[i].lo + 1, gameLog[i].hi), 1)),
              LAMBDA it : it.typ # "itemComment")

\* where the Result tag pairs and the result tokens stand in a sequence of items
resultPairs(its) ==
    {k \in 1..(Len(its) - 3) : its[k].typ = "itemLBracket" /\ its[k + 1].val = ResultTag}
resultTokens(its) == {k \in 1..Len(its) : its[k].typ = "itemResult"}

\* the value the last Result tag pair gives
pairValue(its) == unescape(its[MaxOf(resultPairs(its)) + 2].val)

\* C17 as stated: every game DB.Parse appends has a non-empty Result tag: the value of
\* the Result tag pair if one was given, otherwise the result token found in the
\* movetext, otherwise "*".
C17_ResultPairTokenOrStar ==
    (ret.op = "Parse") =>
        \A i \in 1..Len(Games) :
            LET stated(its) ==
                    IF resultPairs(its) # {} THEN pairValue(its)
                    ELSE IF resultTokens(its) # {} THEN its[MinOf(resultTokens(its))].val
                    ELSE <<"*">>
            IN /\ getTag(Games[i].Tags, ResultTag) # << >>
               /\ getTag(Games[i].Tags, ResultTag) = stated(gameItems(i))

\* C17 amended: every game DB.Parse appends has a non-empty Result tag: the value of
\* the last Result tag pair if one was given and its value is not empty; the first
\* result token of the movetext if no Result tag pair was given; "*" if neither was
\* given or the value of the Result tag pair is empty.
C17_ResultNonEmptyPairTokenOrStar ==
    (ret.op = "Parse") =>
        \A i \in 1..Len(Games) :
            LET amended(its) ==
                    IF resultPairs(its) # {}
                    THEN (IF pairValue(its) # << >> THEN pairValue(its) ELSE <<"*">>)
                    ELSE IF resultTokens(its) # {} THEN its[MinOf(resultTokens(its))].val
                    ELSE <<"*">>
            IN /\ ResultTag \in DOMAIN Games[i].Tags
               /\ Games[i].Tags[ResultTag] # << >>
               /\ Games[i].Tags[ResultTag] = amended(gameItems(i))

\* a game that takes its result from the movetext, then a game with an empty Result
\* tag pair that gets "*"
C17_Witness ==
    /\ ret.op = "Parse" /\ ret.done /\ Len(Games) = 2
    /\ resultPairs(gameItems(1)) = {} /\ resultTokens(gameItems(1)) # {}
    /\ Games[1].Tags[ResultTag] = <<"1", "-", "0">>
    /\ resultPairs(gameItems(2)) # {} /\ pairValue(gameItems(2)) = << >>
    /\ Games[2].Tags[ResultTag] = <<"*">>

\* the items, comments left out, from where the j-th read began up to the end of the
\* text or to the first rune the lexer rejects
readItems(j) ==
    SelectSeq(itemsOf(newLexer(SubSeq(parsedText, ret.log[j].lo + 1, Len(parsedText)), 1)),
              LAMBDA it : it.typ # "itemComment")

\* the k-th group of four items is a tag pair
tagPairAt(its, k) ==
    /\ 4 * k <= Len(its)
    /\ its[4 * k - 3].typ = "itemLBracket" /\ its[4 * k - 2].typ = "itemSymbol"
    /\ its[4 * k - 1].typ = "itemString" /\ its[4 * k].typ = "itemRBracket"

\* the number of tag pairs the items begin with
tagPairs(its) == MaxOf({n \in 0..Len(its) : \A k \in 1..n : tagPairAt(its, k)})

\* the items begin with a tag section and go on with movetext
hasMovetext(its) ==
    /\ tagPairs(its) >= 1
    /\ 4 * tagPairs(its) < Len(its) => its[4 * tagPairs(its) + 1].typ # "itemLBracket"

\* the places of the movetext: from the end of the tag section to the next tag section
movetext(its) ==
    {k \in (4 * tagPairs(its) + 1)..Len(its) :
        \A j \in (4 * tagPairs(its) + 1)..k : its[j].typ # "itemLBracket"}

\* the Result tag of the game: the value of its last Result tag pair, or else the
\* first result token of its movetext; empty when there is neither
resultTag(its) ==
    LET pairs == {k \in 1..tagPairs(its) : its[4 * k - 2].val = ResultTag}
        tokens == movetext(its) \cap resultTokens(its)
    IN IF pairs # {} THEN unescape(its[4 * MaxOf(pairs) - 1].val)
       ELSE IF tokens # {} THEN its[MinOf(tokens)].val
       ELSE << >>

\* the result tokens of the movetext that differ from the Result tag
differing(its) ==
    {k \in movetext(its) \cap resultTokens(its) : its[k].val # resultTag(its)}

\* the error the j-th read appended, if it failed
errorOf(j) == errs[Cardinality({k \in 1..j : ret.log[k].kind = "error"})]

\* C18: if the movetext of a game holds a result token that differs from the value of
\* its Result tag, DB.Parse reports `game result "<token>" differs from Result tag
\* "<tag>"` for that game and does not append the game to DB.Games.
C18_ResultMismatchIsAnError ==
    (ret.op = "Parse") =>
        \A j \in 1..Len(ret.log) :
            LET holds(its) ==
                    (hasMovetext(its) /\ differing(its) # {}) =>
                        /\ ret.log[j].kind = "error"
                        /\ errorOf(j).Message =
                              [fmt |-> "game result %q differs from Result tag %q",
                               args |-> <<its[MinOf(differing(its))].val, resultTag(its)>>]
            IN /\ holds(readItems(j))
               /\ Len(Games) = Cardinality({k \in 1..Len(ret.log) : ret.log[k].kind = "game"})

\* the read of `[Result "*"]`, `1. e4 *` and then `1-0` has failed with that error
C18_Witness ==
    /\ ret.op = "Parse" /\ ret.done
    /\ parsedText = Chunks[2] \o Chunks[6]
    /\ Games = << >> /\ Len(errs) = 1
    /\ errs[1].Message.args = << <<"1", "-", "0">>, <<"*">> >>

\* the game is as NewGame made it: a root without Next and Variation, and the lexer of
\* its movetext not yet used
unresolved(g) ==
    /\ g.Root = 1 /\ Len(g.nodes) = 1
    /\ g.nodes[1].Next = 0 /\ g.nodes[1].Variation = 0
    /\ g.movelex # nil /\ g.movelex.pos = 0

RECURSIVE firstIllegal(_, _, _)
\* the place of the first move among the items its[k..] that ParseMove rejects when
\* the moves before it are played from the board bd; 0 when there is none before the
\* end or the first parenthesis
firstIllegal(bd, its, k) ==
    LET tried(m) == IF m.err THEN k ELSE firstIllegal(MakeMove(bd, m.move), its, k + 1)
    IN IF k > Len(its) \/ its[k].typ \in {"itemLParen", "itemRParen"} THEN 0
       ELSE IF its[k].typ = "itemSymbol" THEN tried(ParseMove(bd, its[k].val))
       ELSE firstIllegal(bd, its, k + 1)

\* C19: DB.Parse never resolves movetext: while ParseMoves has not been called every
\* game of DB.Games has a Root without Next and Variation; a move that is illegal or
\* unparsable in its position gives no error in Parse, the error is reported by
\* ParseMoves for that game.
C19_ParseDefersMovetext ==
    /\ ret.op = "Parse" => \A i \in 1..Len(Games) : unresolved(Games[i])
    /\ \A k \in 1..Len(errs) : errs[k].Message.fmt # "%q: %s"
    /\ (ret.op = "ParseMoves" /\ unresolved(ret.before)) =>
          LET reported(its, k) ==
                  k # 0 => /\ ret.err # nil
                           /\ ret.err.Message =
                                 [fmt |-> "%q: %s", args |-> <<its[k].val, "invalid move">>]
              judged(its) ==
                  reported(its, firstIllegal(ret.before.nodes[1].Board, its, 1))
          IN judged(itemsOf(ret.before.movelex))

\* DB.Parse has returned a game and no error for `[White "J"] e4 Ke7`, and ParseMoves
\* has reported the move Ke7
C19_Witness ==
    /\ ret.op = "ParseMoves" /\ unresolved(ret.before)
    /\ parsedText = Chunks[5]
    /\ errs = << >> /\ Len(Games) = 1
    /\ ret.err # nil /\ ret.err.Message.args = << <<"K", "e", "7">>, "invalid move" >>

\* C20: after a successful ParseMoves(game) the lexer of the movetext is cleared, and
\* any further ParseMoves(game) returns nil and leaves the game tree (all nodes, moves,
\* comments and NAGs) unchanged.
C20_ParseMovesOnce ==
    (ret.op = "ParseMoves") =>
        /\ ret.err = nil => Games[ret.game].movelex = nil
        /\ ret.before.movelex = nil => (ret.err = nil /\ Games[ret.game] = ret.before)

\* ParseMoves has been called again on a game whose tree holds a comment, a NAG and a
\* variation
C20_Witness ==
    /\ ret.op = "ParseMoves" /\ ret.before.movelex = nil /\ ret.err = nil
    /\ Games[ret.game].nodes = ret.before.nodes
    /\ \E n \in 1..Len(ret.before.nodes) : ret.before.nodes[n].Comment # << >>
    /\ \E n \in 1..Len(ret.before.nodes) : ret.before.nodes[n].Nags # << >>
    /\ \E n \in 1..Len(ret.before.nodes) : ret.before.nodes[n].Variation # 0

RECURSIVE reach(_, _)
\* the nodes reached from the nodes of from by following Next and Variation
reach(nodes, from) ==
    LET more == from \cup {nodes[n].Next : n \in from} \cup {nodes[n].Variation : n \in from}
        grown == more \ {0}
    IN IF grown = from THEN from ELSE reach(nodes, grown)

\* C21 as stated: if ParseMoves(game) returns an error, game.Root has afterwards the Board,
\* Comment and Nags it had before the call and has no Next and no Variation: no node,
\* comment or NAG made by the failed parse is reachable from game.Root.
C21_FailureRestoresRoot ==
    (ret.op = "ParseMoves" /\ ret.err # nil) =>
        LET restored(old, new) ==
                /\ new.Board = old.Board
                /\ new.Comment = old.Comment
                /\ new.Nags = old.Nags
                /\ new.Next = 0 /\ new.Variation = 0
        IN /\ restored(ret.before.nodes[ret.before.Root],
                       Games[ret.game].nodes[Games[ret.game].Root])
           /\ reach(Games[ret.game].nodes, {Games[ret.game].Root}) = {Games[ret.game].Root}

\* C21 amended: if ParseMoves(game) returns an error, game.Root has afterwards the
\* Board, Comment, Nags, Next and Variation it had before the call (no Next and no
\* Variation unless a node was inserted before the call): every node reachable from
\* game.Root existed before the call and is as it was, so no node, comment or NAG made
\* by the failed parse is reachable.
C21_FailureRestoresRootAsBefore ==
    (ret.op = "ParseMoves" /\ ret.err # nil) =>
        LET old == ret.before
            new == Games[ret.game]
            restored(o, n) ==
                /\ n.Board = o.Board /\ n.Comment = o.Comment /\ n.Nags = o.Nags
                /\ n.Next = o.Next /\ n.Variation = o.Variation
        IN /\ restored(old.nodes[old.Root], new.nodes[new.Root])
           /\ \A n \in reach(new.nodes, {new.Root}) \ {new.Root} :
                n \in 1..Len(old.nodes) /\ new.nodes[n] = old.nodes[n]
           /\ (old.nodes[old.Root].Next = 0 /\ old.nodes[old.Root].Variation = 0) =>
                reach(new.nodes, {new.Root}) = {new.Root}

\* a failed ParseMoves on a game whose root had a next move before the call and got
\* another one from the parser
C21_Witness ==
    /\ ret.op = "ParseMoves" /\ ret.err # nil
    /\ Games[ret.game].Root # ret.before.Root
    /\ ret.before.nodes[ret.before.Root].Next # 0
    /\ Games[ret.game].nodes[ret.before.Root].Next # ret.before.nodes[ret.before.Root].Next

\* C22: if ParseMoves(game) fails, the lexer of the movetext is cleared, so a second
\* ParseMoves(game) returns success and builds no node from the rest of the movetext.
C22_FailureClearsLexer ==
    (ret.op = "ParseMoves") =>
        /\ ret.err # nil => Games[ret.game].movelex = nil
        /\ ret.before.Root # 1 => (ret.err = nil /\ Games[ret.game].nodes = ret.before.nodes)

\* C23: in every game tree built by Insert calls, NewVariation calls on nodes that have
\* a parent, and successful ParseMoves calls, for every node n reachable from the root:
\* if n.Next exists, n.Next.Parent is n and n.Next is not a root; if n.Variation exists,
\* it is a root, carries NullMove, and its Board is the Board of its Parent.
C23_NextAndVariationShape ==
    \A i \in 1..Len(Games) :
        LET nodes == Games[i].nodes
            shaped(n) ==
                /\ nodes[n].Next # 0 =>
                      /\ nodes[nodes[n].Next].Parent = n
                      /\ ~IsRoot(nodes, nodes[n].Next)
                /\ nodes[n].Variation # 0 =>
                      /\ IsRoot(nodes, nodes[n].Variation)
                      /\ nodes[nodes[n].Variation].Move = NullMove
                      /\ nodes[nodes[n].Variation].Parent # 0
                      /\ nodes[nodes[n].Variation].Board =
                            nodes[nodes[nodes[n].Variation].Parent].Board
        IN Games[i].Root = 1 => \A n \in reach(nodes, {1}) : shaped(n)

\* a tree built by ParseMoves and by NewVariation and Insert after it: a move with two
\* variations, the second one holding a move
C23_Witness ==
    /\ ret.op = "Insert" /\ ret.edits = 2
    /\ \E n \in reach(Games[1].nodes, {1}) : \E v \in reach(Games[1].nodes, {1}) :
         /\ Games[1].Root = 1
         /\ Games[1].nodes[n].Variation # 0
         /\ Games[1].nodes[Games[1].nodes[n].Variation].Next = v
         /\ Games[1].nodes[v].Variation # 0
         /\ Games[1].nodes[Games[1].nodes[v].Variation].Next # 0

RECURSIVE parenFault(_, _, _)
\* the first fault of the parentheses among the items its[k..], as the message of the
\* error, or nil; line holds, for the main line and for each variation that is open,
\* whether a move of it has been met
parenFault(its, k, line) ==
    LET depth == Len(line) - 1
        moved == [line EXCEPT ![Len(line)] = TRUE]
    IN IF k > Len(its)
       THEN (IF depth > 0 THEN [fmt |-> "%d unclosed variations", args |-> <<depth>>] ELSE nil)
       ELSE IF its[k].typ = "itemLParen"
       THEN (IF ~line[Len(line)]
             THEN [fmt |-> "variation without a preceeding move", args |-> << >>]
             ELSE parenFault(its, k + 1, Append(line, FALSE)))
       ELSE IF its[k].typ = "itemRParen"
       THEN (IF depth = 0 THEN [fmt |-> "unexpected right parenthesis", args |-> << >>]
             ELSE parenFault(its, k + 1, SubSeq(line, 1, depth)))
       ELSE parenFault(its, k + 1, IF its[k].typ = "itemSymbol" THEN moved ELSE line)

\* C24: ParseMoves succeeds only if the parentheses of the movetext are balanced and
\* every '(' follows a move of the line it is in; the first fault fails with
\* "variation without a preceeding move" for a '(' at a variation root, "unexpected
\* right parenthesis" for a ')' at depth 0, "n unclosed variations" for the end of the
\* movetext at depth n > 0, unless a move before it was rejected.
C24_ParenthesesChecked ==
    (ret.op = "ParseMoves" /\ unresolved(ret.before)) =>
        LET judged(fault) ==
                fault # nil =>
                    /\ ret.err # nil
                    /\ ret.err.Message = fault \/ ret.err.Message.fmt = "%q: %s"
        IN judged(parenFault(itemsOf(ret.before.movelex), 1, <<FALSE>>))

\* a ParseMoves that failed with two variations left open
C24_Witness ==
    /\ ret.op = "ParseMoves" /\ unresolved(ret.before)
    /\ ret.err # nil
    /\ ret.err.Message = [fmt |-> "%d unclosed variations", args |-> <<2>>]

RECURSIVE view(_, _)
\* the tree below node n as a traversal sees it: the move, position, comments and NAGs
\* of each node, its next move and its variation
view(nodes, n) ==
    IF n = 0 THEN nil
    ELSE [Move |-> nodes[n].Move, Board |-> nodes[n].Board, Comment |-> nodes[n].Comment,
          Nags |-> nodes[n].Nags, Next |-> view(nodes, nodes[n].Next),
          Variation |-> view(nodes, nodes[n].Variation)]

\* DB.Parse and then DB.ParseMoves on the first game of a text
parsedTree(text) ==
    LET moved(r) == [tree |-> view(r.game.nodes, r.game.Root), ok |-> r.err = nil]
        read(g) == moved(ParseMoves(g.game))
    IN read(readGame(newParser(newLexer(text, 1))))

RECURSIVE chainOf(_, _)
\* the roots of the alternatives to node n: n.Variation, n.Variation.Next.Variation, ...
chainOf(nodes, n) ==
    IF nodes[n].Variation = 0 THEN << >>
    ELSE IF nodes[nodes[n].Variation].Next = 0 THEN <<nodes[n].Variation>>
    ELSE <<nodes[n].Variation>> \o chainOf(nodes, nodes[nodes[n].Variation].Next)

\* C25: NewVariation appends the new root at the end of the chain of alternatives of
\* the move, so `(d5) (Nf6)` after a move gives the tree of `(d5 (Nf6))`, both
\* alternatives in the chain of the move; an empty variation at the end of the chain is
\* replaced, so `() (d5)` gives the tree of `(d5)`, with one variation.
C25_VariationsChain ==
    (ret.op = "ParseMoves" /\ unresolved(ret.before)) =>
        LET got == [tree |-> view(Games[1].nodes, Games[1].Root), ok |-> ret.err = nil]
            tails == {<< >>} \cup {MovePieces[k] : k \in 1..Len(MovePieces)}
            d5 == MovePieces[1]
            Nf6 == MovePieces[2]
            d5open == MovePieces[3]
            open == MovePieces[4]
            close == MovePieces[5]
        IN \A h \in MoveHeads :
            /\ \A x \in tails :
                 parsedText = h \o d5 \o Nf6 \o x =>
                    /\ got = parsedTree(h \o d5open \o Nf6 \o close \o x)
                    /\ got.ok => Len(chainOf(Games[1].nodes, 3)) =
                                    IF x \in {d5, Nf6} THEN 3 ELSE 2
            /\ parsedText = h \o open \o close \o d5 =>
                    /\ got = parsedTree(h \o d5)
                    /\ got.ok => Len(chainOf(Games[1].nodes, 3)) = 1

\* `e4 e5 (d5) (Nf6) Nf3` has been parsed: e5 has two alternatives and a next move
C25_Witness ==
    /\ ret.op = "ParseMoves" /\ unresolved(ret.before) /\ ret.err = nil
    /\ parsedText = Chunks[9] \o <<" ", "e", "4", " ", "e", "5">> \o MovePieces[1]
                       \o MovePieces[2] \o MovePieces[6]
    /\ Len(chainOf(Games[1].nodes, 3)) = 2
    /\ Games[1].nodes[3].Next # 0

RECURSIVE firstOnes(_)
\* a sequence without its repetitions: each element where it stands first
firstOnes(seq) ==
    LET front == firstOnes(SubSeq(seq, 1, Len(seq) - 1))
        last == seq[Len(seq)]
    IN IF seq = << >> THEN << >>
       ELSE IF \E k \in 1..Len(front) : front[k] = last THEN front
       ELSE Append(front, last)

\* the NAGs the movetext its adds to its node j, in the order of the text: those of
\* the annotations that stand after j - 1 moves (the movetext holds no parentheses)
addedNags(its, j) ==
    LET places == {k \in 1..Len(its) :
                     /\ its[k].typ = "itemAnnotation"
                     /\ Cardinality({m \in 1..k : its[m].typ = "itemSymbol"}) = j - 1}
        RECURSIVE inOrder(_)
        inOrder(ks) == IF ks = {} THEN << >>
                       ELSE <<Atoi(Tail(its[MinOf(ks)].val)).n>> \o inOrder(ks \ {MinOf(ks)})
    IN inOrder(places)

\* C26: after any sequence of AddNag calls on a node, Node.Nags holds each added NAG
\* exactly once, in the order of its first insertion: here for the AddNag calls a
\* successful ParseMoves makes for the annotations of a movetext without variations.
C26_NagsOnceInOrder ==
    (ret.op = "ParseMoves" /\ unresolved(ret.before) /\ ret.err = nil) =>
        LET held(its) ==
                (\A k \in 1..Len(its) : its[k].typ \notin {"itemLParen", "itemRParen"}) =>
                    \A j \in 1..Len(Games[ret.game].nodes) :
                        Games[ret.game].nodes[j].Nags = firstOnes(addedNags(its, j))
        IN held(itemsOf(ret.before.movelex))

\* `e4 e5 $45 $3 $45` has been parsed: e5 holds 45 and 3
C26_Witness ==
    /\ ret.op = "ParseMoves" /\ unresolved(ret.before) /\ ret.err = nil
    /\ parsedText = Chunks[9] \o <<" ", "e", "4", " ", "e", "5">> \o MovePieces[7]
                       \o MovePieces[8] \o MovePieces[7]
    /\ Games[1].nodes[3].Nags = <<45, 3>>

\* C27: after n.DropNag(x) on a node whose Nags hold x, x is no longer in n.Nags, every
\* other NAG held before is held exactly once and the list is one shorter; so Node.Nags
\* never holds a NAG twice.
C27_DropNagRemoves ==
    LET count(nags, y) == Cardinality({k \in 1..Len(nags) : nags[k] = y})
        dropped(old, new, x) ==
            count(old, x) > 0 =>
                /\ count(new, x) = 0
                /\ \A k \in 1..Len(old) : old[k] # x => count(new, old[k]) = 1
                /\ Len(new) = Len(old) - 1
    IN /\ ret.op = "DropNag" =>
            dropped(ret.before.nodes[ret.node].Nags, Games[ret.game].nodes[ret.node].Nags,
                    ret.arg)
       /\ \A i \in 1..Len(Games) : \A n \in 1..Len(Games[i].nodes) :
            \A k \in 1..Len(Games[i].nodes[n].Nags) :
                count(Games[i].nodes[n].Nags, Games[i].nodes[n].Nags[k]) = 1

RECURSIVE mainLineSymbols(_, _, _)
\* the number of symbols among the items its[k..] that stand outside all parentheses
mainLineSymbols(its, k, depth) ==
    IF k > Len(its) THEN 0
    ELSE IF its[k].typ = "itemLParen" THEN mainLineSymbols(its, k + 1, depth + 1)
    ELSE IF its[k].typ = "itemRParen" THEN mainLineSymbols(its, k + 1, depth - 1)
    ELSE (IF its[k].typ = "itemSymbol" /\ depth = 0 THEN 1 ELSE 0)
         + mainLineSymbols(its, k + 1, depth)

\* C28: for every game read by DB.Parse, Plies() before ParseMoves (the count of the
\* symbols at parenthesis depth 0 taken in the header pass) equals Plies() after a
\* successful ParseMoves (the number of nodes of the main line after the root).
C28_PliesBeforeAndAfter ==
    /\ ret.op = "Parse" =>
          \A i \in 1..Len(Games) :
              Plies(Games[i]) = mainLineSymbols(itemsOf(Games[i].movelex), 1, 0)
    /\ (ret.op = "ParseMoves" /\ unresolved(ret.before) /\ ret.err = nil) =>
          Plies(Games[ret.game]) = Plies(ret.before)

\* `e4 e5 (d5) Nf3 $3` has been parsed: three plies before and after
C28_Witness ==
    /\ ret.op = "ParseMoves" /\ unresolved(ret.before) /\ ret.err = nil
    /\ parsedText = Chunks[9] \o <<" ", "e", "4", " ", "e", "5">> \o MovePieces[1]
                       \o MovePieces[6] \o MovePieces[8]
    /\ Plies(ret.before) = 3 /\ Games[1].nodes[1].Next # 0 /\ Plies(Games[1]) = 3

RECURSIVE unescaped(_)
\* a row of runes with every backslash escape \x replaced by x
unescaped(runes) ==
    IF runes = << >> THEN << >>
    ELSE IF runes[1] = "\\" /\ Len(runes) >= 2
    THEN <<runes[2]>> \o unescaped(SubSeq(runes, 3, Len(runes)))
    ELSE <<runes[1]>> \o unescaped(Tail(runes))

\* C29: a tag value stored by DB.Parse is the content of the PGN string with the
\* quotes around it removed and every backslash escape \x replaced by x: \" gives one
\* double quote and \\ gives one backslash.
C29_TagValueUnescaped ==
    (ret.op = "Parse") =>
        \A i \in 1..Len(Games) :
            LET stored(its) ==
                    \A k \in 1..tagPairs(its) :
                        (\A j \in (k + 1)..tagPairs(its) : its[4 * j - 2].val # its[4 * k - 2].val)
                        => Games[i].Tags[its[4 * k - 2].val] =
                              unescaped(SubSeq(its[4 * k - 1].val, 2, Len(its[4 * k - 1].val) - 1))
            IN stored(gameItems(i))

\* C30: once the communicator has read a bestmove line while a search is running, it
\* sends that line as one Info on the channel of the search and then closes the channel;
\* no Info follows the bestmove on the channel and none is sent on the closed channel,
\* so the receive after the bestmove reports the channel closed.
C30_BestmoveThenClosed ==
    /\ [](\A k \in DOMAIN infocs :
            /\ \A i \in 1..Len(infocs[k].sent) :
                  (infocs[k].sent[i].line # << >> /\ infocs[k].sent[i].line[1] = "bestmove")
                  => i = Len(infocs[k].sent)
            /\ \A i \in 1..(Len(infocs[k].got) - 1) :
                  (infocs[k].got[i].line # << >> /\ infocs[k].got[i].line[1] = "bestmove")
                  => ~infocs[k].got[i + 1].ok)
    /\ [][\A k \in DOMAIN infocs :
            infocs[k].closed => infocs'[k].closed /\ infocs'[k].sent = infocs[k].sent]_vars
    /\ \A k \in 1..MaxCalls : \A n \in 1..MaxLines :
          (comm.pc = "send" /\ comm.infoc = k /\ comm.pend = <<Info(<<"bestmove", n>>, nil)>>)
          ~> /\ k \in DOMAIN infocs
             /\ infocs[k].closed
             /\ infocs[k].sent # << >>
             /\ infocs[k].sent[Len(infocs[k].sent)] = Info(<<"bestmove", n>>, nil)
             /\ Len(infocs[k].got) >= 2
             /\ infocs[k].got[Len(infocs[k].got) - 1] = Info(<<"bestmove", n>>, nil)
             /\ ~infocs[k].got[Len(infocs[k].got)].ok

\* a search whose channel held an info line when the bestmove line was read: the loop
\* over the channel got the info, the bestmove and then the closed channel
C30_Witness ==
    /\ comm # nil
    /\ \E k \in DOMAIN infocs :
         /\ infocs[k].closed
         /\ Len(infocs[k].got) = 3
         /\ infocs[k].got[1].line # << >> /\ infocs[k].got[1].line[1] = "info"
         /\ infocs[k].got[2].line # << >> /\ infocs[k].got[2].line[1] = "bestmove"
         /\ ~infocs[k].got[3].ok
         /\ infocs[k].sent = SubSeq(infocs[k].got, 1, 2)

\* C31: when uci, isready or quit is not answered before the timeout fires, the
\* communicator closes the process and the pending Send returns engine.ErrTimeout; the
\* Send gets one reply, and every later Send returns the stored error at once and
\* nothing is written to the engine. A Send that waits for its answer returns, unless
\* the output of the engine ends first.
C31_TimeoutAnswersSend ==
    /\ [](comm.err = ErrTimeout => comm.process = "closed")
    /\ [][(comm.pc = "select" /\ comm.timeout /\ comm'.err = ErrTimeout)
             => comm'.errc = <<ErrTimeout>> /\ ~comm'.timeout]_vars
    /\ [][(comm.err # nil /\ caller.pc = "send" /\ caller'.pc = "recv")
             => /\ comm'.pc = "reply" /\ comm'.errc = <<comm.err>>
                /\ comm'.err = comm.err
                /\ engine'.stdin = engine.stdin]_vars
    /\ (caller.pc = "recv" /\ comm.timeout) ~> (caller.pc # "recv" \/ ~comm.linec)

\* C32: after b.MakeMove(m) EpSquare is set exactly when m moved a pawn by two ranks, and
\* it is then the square the pawn skipped; on a board reached by legal moves a set
\* EpSquare is empty and lies directly behind a pawn of the side that has just moved.
C32_EpSquareAfterDoubleStep ==
    /\ (out.op = "MakeMove" /\ "panic" \notin DOMAIN out.res) =>
          LET m == out.arg
              double == /\ m # NullMove
                        /\ ~isCastling(b, m)
                        /\ Type(b.Piece[m.From]) = Pawn
                        /\ Rank(m.To) - Rank(m.From) \in {2, -2}
          IN /\ (out.res.EpSquare # NoSquare) <=> double
             /\ double => /\ File(out.res.EpSquare) = File(m.From)
                          /\ 2 * Rank(out.res.EpSquare) = Rank(m.From) + Rank(m.To)
    /\ (b.EpSquare # NoSquare) =>
          /\ b.Piece[b.EpSquare] = NoPiece
          /\ RelativeRank(b.EpSquare, 1 - b.SideToMove) = Rank1 + 2
          /\ b.Piece[Square(File(b.EpSquare),
                            Rank(b.EpSquare) + (IF b.SideToMove = Black THEN 1 ELSE -1))]
                = opp(b, Pawn)

\* the start position after 1. e4, and a move made on it that is no double step
C32_Witness ==
    /\ plies = 1
    /\ b = MakeMove(ParseFen(<< >>).board, Move(Square(4, 1), Square(4, 3), NoPiece))
    /\ b.EpSquare = Square(4, 2)
    /\ out.op = "MakeMove" /\ "panic" \notin DOMAIN out.res
    /\ out.res.EpSquare = NoSquare

enPassant(m) ==
    /\ m # NullMove
    /\ ~isCastling(b, m)
    /\ Type(b.Piece[m.From]) = Pawn
    /\ m.To = b.EpSquare
    /\ File(m.To) # File(m.From)
    /\ Rank(m.To) - Rank(m.From) \in {1, -1}

\* what MakeMove has done with an en-passant capture
enPassantDone(m, res) ==
    LET pawns(bd) == Cardinality({sq \in 0..63 : bd.Piece[sq] = opp(b, Pawn)})
    IN /\ res.Piece[m.To] = b.Piece[m.From]
       /\ res.Piece[Square(File(m.To), Rank(m.From))] = NoPiece
       /\ res.Piece[m.From] = NoPiece
       /\ pawns(res) = pawns(b) - 1
       /\ res.Rule50 = 0

\* C34: an en-passant capture leaves the capturing pawn on EpSquare, empties the square
\* of the captured pawn and the origin, takes one pawn from the opponent and sets Rule50
\* to 0; every other move sets Rule50 to 0 when it moves a pawn or captures, and counts
\* it up by one otherwise, castling included.
C34_EnPassantAndRule50 ==
    (out.op = "MakeMove" /\ "panic" \notin DOMAIN out.res) =>
        IF enPassant(out.arg) THEN enPassantDone(out.arg, out.res)
        ELSE out.res.Rule50 =
                IF /\ ~isCastling(b, out.arg)
                   /\ \/ Type(b.Piece[out.arg.From]) = Pawn
                      \/ b.Piece[out.arg.To] # NoPiece
                THEN 0 ELSE b.Rule50 + 1

\* C34, amended: as above for every move other than the null move; the null move
\* leaves Rule50 as it is.
C34_EnPassantAndRule50ButNullMove ==
    (out.op = "MakeMove" /\ "panic" \notin DOMAIN out.res) =>
        IF enPassant(out.arg) THEN enPassantDone(out.arg, out.res)
        ELSE out.res.Rule50 =
                IF out.arg = NullMove THEN b.Rule50
                ELSE IF /\ ~isCastling(b, out.arg)
                        /\ \/ Type(b.Piece[out.arg.From]) = Pawn
                           \/ b.Piece[out.arg.To] # NoPiece
                THEN 0 ELSE b.Rule50 + 1

\* MakeMove has made an en-passant capture
C34_Witness ==
    /\ out.op = "MakeMove" /\ "panic" \notin DOMAIN out.res
    /\ enPassant(out.arg)
    /\ out.res.Piece[b.EpSquare] = my(b, Pawn)

\* the move m of the piece on m.From keeps to the way that piece moves on the board b
keepsGeometry(m) ==
    LET piece == b.Piece[m.From]
        fx == File(m.To) - File(m.From)
        fy == Rank(m.To) - Rank(m.From)
        dx == IF fx < 0 THEN -fx ELSE fx
        dy == IF fy < 0 THEN -fy ELSE fy
        sx == IF fx < 0 THEN -1 ELSE IF fx > 0 THEN 1 ELSE 0
        sy == IF fy < 0 THEN -1 ELSE IF fy > 0 THEN 1 ELSE 0
        far == IF dx > dy THEN dx ELSE dy
        free == \A k \in 1..(far - 1) :
                    b.Piece[Square(File(m.From) + k * sx, Rank(m.From) + k * sy)] = NoPiece
        diagonal == dx = dy /\ dx > 0 /\ free
        straight == (dx = 0) # (dy = 0) /\ free
    IN /\ piece # NoPiece /\ Color(piece) = b.SideToMove
       /\ b.Piece[m.To] = NoPiece \/ Color(b.Piece[m.To]) # b.SideToMove
       /\ IF Type(piece) = Knight THEN {dx, dy} = {1, 2}
          ELSE IF Type(piece) = King THEN dx <= 1 /\ dy <= 1 /\ dx + dy > 0
          ELSE IF Type(piece) = Bishop THEN diagonal
          ELSE IF Type(piece) = Rook THEN straight
          ELSE IF Type(piece) = Queen THEN diagonal \/ straight
          ELSE /\ dx <= 1
               /\ fy = (IF b.SideToMove = White THEN 1 ELSE -1)
                  \/ (dx = 0 /\ fy = (IF b.SideToMove = White THEN 2 ELSE -2) /\ free)

\* C35: no generated move wraps around an edge of the board: every move of
\* pseudoLegalMoves that is not castling goes from a square to a square of the board,
\* over the distances the moving piece can go (sliders over empty squares only), and
\* never onto a piece of the side that moves.
C35_NoMoveWrapsAround ==
    LET sound(moves) ==
            \A i \in 1..Len(moves) :
                /\ moves[i].From \in 0..63 /\ moves[i].To \in 0..63
                /\ ~isCastling(b, moves[i]) => keepsGeometry(moves[i])
    IN sound(pseudoLegalMoves(b).moves)

\* LegalMoves has run the generator on a board on which a knight on an edge file has
\* moves and a bishop goes three squares
C35_Witness ==
    LET has(moves, type, files) ==
            \E i \in 1..Len(moves) :
                /\ Type(b.Piece[moves[i].From]) = type
                /\ File(moves[i].From) \in files
                /\ ~isCastling(b, moves[i])
        far(moves) ==
            \E i \in 1..Len(moves) :
                /\ Type(b.Piece[moves[i].From]) = Bishop
                /\ Rank(moves[i].To) - Rank(moves[i].From) \in {3, -3}
        seen(moves) == has(moves, Knight, {FileA, FileH}) /\ far(moves)
    IN out.op = "LegalMoves" /\ seen(pseudoLegalMoves(b).moves)

\* the offset in the text DB.Parse was called on at which the movetext of game i begins
windowStart(i) == gameLog[i].hi - Len(Games[i].movelex.input)

\* the line a rune at the offset stands on in the text DB.Parse was called on
lineAt(offset) == 1 + Cardinality({k \in 1..offset : parsedText[k] = "\n"})

\* the lexer of the movetext of game i standing in the text DB.Parse was called on,
\* which it reads up to the end of the movetext
lexerInText(i) ==
    ignore(consume(newLexer(SubSeq(parsedText, 1, gameLog[i].hi), 1), windowStart(i)))

\* C36: the lexer a game keeps for its movetext starts with the line of the offset at
\* which the movetext begins in the text DB.Parse was called on, and the Line of the
\* ParseError of a failed ParseMoves is the line on which the parser fails when it
\* reads the same movetext in place in that text.
C36_MovetextLinesAreTextLines ==
    /\ [](ret.op = "Parse" =>
             \A i \in 1..Len(Games) : Games[i].movelex.line = lineAt(windowStart(i)))
    /\ [][(ret.op = "Parse" /\ ret'.op = "ParseMoves" /\ ret'.err # nil) =>
             ret'.err.Line
                = parseMoves(lexerInText(ret'.game), Games[ret'.game].nodes,
                             Games[ret'.game].Root).err.Line]_vars

\* the offset at which the token begins that item() reads next in a text without
\* comments: the first offset from l.pos on that holds no white space
tokenStart(l) ==
    MinOf({k \in l.pos..Len(l.input) :
              k = Len(l.input) \/ l.input[k + 1] \notin {" ", "\t", "\r", "\n"}})

\* the texts of the game results that begin with a digit
DigitResults ==
    {<<"1", "-", "0">>, <<"0", "-", "1">>, <<"1", "/", "2", "-", "1", "/", "2">>}

\* C37: a token that begins with a digit is a RESULT exactly when the input at its
\* start has the prefix 1-0, 0-1 or 1/2-1/2, and the token is then that prefix;
\* otherwise it is a MOVENUMBER made of the longest run of digits. An item() call made
\* when a '-' or '/' follows a MOVENUMBER panics with "unexpected character".
C37_DigitTokenIsResultOrMoveNumber ==
    [][LET l == parser.lex
           s == tokenStart(l)
           rest == SubSeq(l.input, s + 1, Len(l.input))
           prefixes == {res \in DigitResults :
                           Len(rest) >= Len(res) /\ SubSeq(rest, 1, Len(res)) = res}
           digits == MaxOf({n \in 0..Len(rest) : \A k \in 1..n : rest[k] \in Digits})
           it == ret'.items[Len(ret'.items)]
       IN (ret.op = "collect" /\ ret'.items # ret.items) =>
            /\ (rest # << >> /\ rest[1] \in Digits) =>
                  /\ it.typ \in {"itemResult", "itemMoveNumber"}
                  /\ it.typ = "itemResult" <=> prefixes # {}
                  /\ it.typ = "itemResult" => it.val \in prefixes
                  /\ it.typ = "itemMoveNumber" => it.val = SubSeq(rest, 1, digits)
            /\ (l.emitted.typ = "itemMoveNumber" /\ rest # << >> /\ s = l.pos
                    /\ rest[1] \in {"-", "/"}) =>
                  /\ it.typ = "itemNone"
                  /\ it.val = [fmt |-> "unexpected character: %#U", args |-> <<rest[1]>>]
      ]_vars

\* collect has read the text 1-02- as the result 1-0, the move number 2 and the
\* failure at '-'
C37_Witness ==
    /\ ret.op = "collect" /\ ret.done
    /\ parser.lex.input = <<"1", "-", "0", "2", "-">>
    /\ ret.items = << [typ |-> "itemResult", val |-> <<"1", "-", "0">>],
                      [typ |-> "itemMoveNumber", val |-> <<"2">>],
                      [typ |-> "itemNone",
                       val |-> [fmt |-> "unexpected character: %#U", args |-> <<"-">>]] >>

\* the lexer of the text DB.Parse was called on, standing at the offset
lexerAt(offset) == ignore(consume(newLexer(parsedText, 1), offset))

\* nothing is left to read: the lexer stands at the end of the text and the parser
\* holds no item it has not used, the EOF item apart
exhausted == parser.lex.pos = Len(parsedText) /\ parser.item.typ \in {"itemNone", "itemEOF"}

\* C38: DB.Parse terminates. An item() call made at any offset of the text returns the
\* EOF item or leaves the lexer further on; a readGame call that returns an error
\* leaves the lexer further on or at the end of the text; a readGame call made when
\* nothing is left to read returns (nil, nil), which ends the loop; and the loop of
\* Parse ends.
C38_ParseTerminates ==
    /\ [](\A k \in 0..Len(parsedText) : \E r \in {lexer_item(lexerAt(k))} :
             \/ r.panic.kind = "none" /\ r.lex.emitted.typ = "itemEOF"
             \/ r.lex.pos > k)
    /\ [][(ret.op = "Parse" /\ ret'.op = "Parse" /\ Len(errs') > Len(errs)) =>
             \/ parser'.lex.pos > parser.lex.pos
             \/ parser'.lex.pos = Len(parsedText)]_vars
    /\ [][(ret.op = "Parse" /\ ret'.op = "Parse" /\ ret' # ret /\ exhausted) =>
             ret'.done /\ errs' = errs /\ Games' = Games]_vars
    /\ <>ret.done

\* the loop of Parse has ended after a failed read that left the lexer before the end
\* of the text, a game, and the read of the end of the text
C38_Witness ==
    /\ ret.op = "Parse" /\ ret.done
    /\ Len(ret.log) = 3
    /\ ret.log[1].kind = "error" /\ ret.log[1].hi < Len(parsedText)
    /\ ret.log[2].kind = "game"
    /\ ret.log[3].kind = "end"

\* C39: every call of Engine.Send returns, also when nobody receives from the Info
\* channel of a running search: a caller that stands at its send on cmdc or at its
\* receive from errc gets past it, and the communicator does not stay at a send on an
\* Info channel while the caller waits.
C39_SendReturns ==
    /\ (caller.pc \in {"send", "recv"}) ~> (caller.pc \notin {"send", "recv"})
    /\ (comm.pc = "send" /\ caller.pc \in {"send", "recv"}) ~> (comm.pc # "send")

\* C40: every channel a search returns is closed, and closed once: the communicator
\* never sends on or closes a closed channel, a closed channel stays closed, a channel
\* whose bestmove the communicator has read gets closed, and when the communication has
\* failed or the output of the engine has ended every channel handed out gets closed,
\* also one whose search was followed by another search before its bestmove.
C40_SearchChannelClosedOnce ==
    /\ [](comm.pc # "panic")
    /\ [][\A k \in DOMAIN infocs : infocs[k].closed => infocs'[k].closed]_vars
    /\ \A k \in 1..MaxCalls :
          /\ (comm.infoc = k /\ comm.pend # << >> /\ comm.last) ~>
                (k \in DOMAIN infocs /\ infocs[k].closed)
          /\ (k \in DOMAIN infocs /\ (comm.err # nil \/ ~comm.linec)) ~>
                (k \in DOMAIN infocs /\ infocs[k].closed)

====
